---- MODULE Spec2Model ----
(***************************************************************************)
(* The agentic tool-calling loops of deal-radar (src/agents/*.py): the     *)
(* four loops run_viktor, run_research_agent, run_signal_agent and         *)
(* run_production_planner, their tool executors and the extraction of the  *)
(* final answer.                                                           *)
(*                                                                         *)
(* A string is modelled as a sequence of tokens (a token is a word, a      *)
(* JSON lexeme, a whitespace character or a code-fence marker), so that    *)
(* strip, splitlines, find and json.loads are computed, not assumed.       *)
(***************************************************************************)
EXTENDS Integers, Sequences, FiniteSets, TLC

\* ------------------------------------------------------------------------
\* Bounds of the model
\* ------------------------------------------------------------------------

\* Largest number of content blocks in a response that requests tools.
MaxBlocks == 2

\* Largest number of content blocks in a response that ends the run.
MaxAnswerBlocks == 1

\* The tool_use responses to the first MaxRichTurns calls of a run are drawn
\* from every content of up to MaxBlocks blocks; the later tool_use
\* responses carry the plain single tool request.
MaxRichTurns == 1

\* ------------------------------------------------------------------------
\* Program constants
\* ------------------------------------------------------------------------

MAX_TURNS_viktor == 8
MAX_TURNS_research == 6
MAX_TURNS_signal == 5
MAX_TURNS_planner == 6

Agents == {"viktor", "research", "signal", "planner"}

MAX_TURNS(a) ==
    CASE a = "viktor" -> MAX_TURNS_viktor
      [] a = "research" -> MAX_TURNS_research
      [] a = "signal" -> MAX_TURNS_signal
      [] a = "planner" -> MAX_TURNS_planner

\* The registered tool names: the branches of each agent's _execute_tool.
TOOLS(a) ==
    CASE a = "viktor" ->
            {"search_deals", "update_deal_field", "add_note_to_deal",
             "get_pipeline_summary", "get_capacity_analysis",
             "search_notion_production_calendar", "get_upcoming_meetings",
             "get_recent_email_signals"}
      [] a = "research" ->
            {"get_attio_deal_history", "web_search", "get_company_news"}
      [] a = "signal" -> {"search_deals", "log_signal_to_deal"}
      [] a = "planner" ->
            {"get_pipeline_for_capacity_check",
             "write_production_plan_to_notion"}

\* A name no agent registers.
UnknownName == "nonexistent_tool"

\* ------------------------------------------------------------------------
\* Strings as token sequences
\* ------------------------------------------------------------------------

Whitespace == {" ", "\n"}

RECURSIVE LStrip(_)
LStrip(s) ==
    IF s = <<>> THEN s
    ELSE IF Head(s) \in Whitespace THEN LStrip(Tail(s)) ELSE s

RECURSIVE RStrip(_)
RStrip(s) ==
    IF s = <<>> THEN s
    ELSE IF s[Len(s)] \in Whitespace THEN RStrip(SubSeq(s, 1, Len(s) - 1))
         ELSE s

\* str.strip()
Strip(s) == RStrip(LStrip(s))

\* sep.join(parts)
RECURSIVE Join(_, _)
Join(sep, parts) ==
    IF parts = <<>> THEN <<>>
    ELSE IF Len(parts) = 1 THEN parts[1]
         ELSE parts[1] \o sep \o Join(sep, Tail(parts))

\* ------------------------------------------------------------------------
\* Results of tools and of runs
\* ------------------------------------------------------------------------

\* The mapping {"error": msg}.
ErrorResult(msg) == [shape |-> "error_map", error |-> msg]

\* A list holding the mapping {"error": msg}.
ErrorListResult(msg) == [shape |-> "error_list", error |-> msg]

\* The mapping {"success": False, "error": msg}.
FailedSuccessResult(msg) == [shape |-> "success_false_map", error |-> msg]

\* Any result of a handler that ran to its end without an error.
ValueResult == [shape |-> "value", error |-> <<>>]

\* json.dumps(result, default=str): the serialized text of a result.
Dumps(result) == [json |-> result]

\* ------------------------------------------------------------------------
\* Tool handlers and the tool executor
\* ------------------------------------------------------------------------

\* What an argument mapping does to the handler it is passed to:
\*   ok         the handler and its collaborator succeed
\*   bad_args   the mapping does not bind to the handler's parameters
\*              (a wrong or missing argument name: TypeError at the call)
\*   bad_value  the mapping binds but a value has the wrong type or, for a
\*              date, a number or a field name, does not parse
\*   fails      the collaborator behind the handler raises
Inputs == {"ok", "bad_args", "bad_value", "fails"}

TypeErrorMsg == <<"TypeError: unexpected keyword argument">>
ValueErrorMsg == <<"invalid value">>
CollaboratorMsg == <<"collaborator error">>

Returns(v) == [raises |-> FALSE, msg |-> <<>>, value |-> v]
Raises(m) == [raises |-> TRUE, msg |-> m, value |-> ValueResult]

\* Handlers that wrap their collaborator call in their own try/except and
\* return a list holding one error mapping.
CatchesAsList ==
    {<<"viktor", "get_upcoming_meetings">>,
     <<"viktor", "get_recent_email_signals">>,
     <<"research", "web_search">>,
     <<"research", "get_company_news">>}

\* The outcome of calling the handler registered under name with **inputs.
Handler(a, name, input) ==
    CASE input = "ok" -> Returns(ValueResult)
      [] input = "bad_args" -> Raises(TypeErrorMsg)
      [] input = "fails" ->
            IF <<a, name>> \in CatchesAsList
            THEN Returns(ErrorListResult(CollaboratorMsg))
            ELSE IF a = "signal" /\ name = "log_signal_to_deal"
                 THEN Returns(FailedSuccessResult(CollaboratorMsg))
                 ELSE Raises(CollaboratorMsg)
      [] input = "bad_value" ->
            IF a = "viktor" /\ name = "update_deal_field"
            THEN Returns(ErrorResult(ValueErrorMsg))
            ELSE IF a = "planner" /\ name = "get_pipeline_for_capacity_check"
            THEN Returns(ErrorListResult(ValueErrorMsg))
            ELSE IF a = "planner" /\ name = "write_production_plan_to_notion"
            THEN Returns(ValueResult)
            ELSE IF a = "signal" /\ name = "log_signal_to_deal"
            THEN Returns(FailedSuccessResult(ValueErrorMsg))
            ELSE IF <<a, name>> \in {<<"research", "web_search">>,
                                     <<"research", "get_company_news">>,
                                     <<"viktor", "get_upcoming_meetings">>}
            THEN Returns(ErrorListResult(ValueErrorMsg))
            ELSE Raises(ValueErrorMsg)

UnknownToolMsg(name) == <<"Unknown tool: ", name>>

\* _execute_tool without its try/except: an exception of the handler leaves
\* the executor.
_execute_tool_no_catch(a, name, input) ==
    IF name \in TOOLS(a)
    THEN LET h == Handler(a, name, input)
         IN  IF h.raises
             THEN [raised |-> TRUE, invoked |-> TRUE,
                   value |-> ErrorResult(h.msg)]
             ELSE [raised |-> FALSE, invoked |-> TRUE, value |-> h.value]
    ELSE [raised |-> FALSE, invoked |-> FALSE,
          value |-> ErrorResult(UnknownToolMsg(name))]

\* _execute_tool looking the handler up in a mapping: an unregistered name
\* raises KeyError inside the try and is reported as that exception.
_execute_tool_unknown_raises(a, name, input) ==
    IF name \in TOOLS(a)
    THEN LET h == Handler(a, name, input)
         IN  IF h.raises
             THEN [raised |-> FALSE, invoked |-> TRUE,
                   value |-> ErrorResult(h.msg)]
             ELSE [raised |-> FALSE, invoked |-> TRUE, value |-> h.value]
    ELSE [raised |-> TRUE, invoked |-> FALSE,
          value |-> ErrorResult(<<"KeyError">>)]

\* _execute_tool: [raised, invoked, value].  raised: the call raised instead
\* of returning; invoked: a handler was called.
_execute_tool(a, name, input) ==
    IF name \in TOOLS(a)
    THEN LET h == Handler(a, name, input)
         IN  IF h.raises
             THEN [raised |-> FALSE, invoked |-> TRUE,
                   value |-> ErrorResult(h.msg)]
             ELSE [raised |-> FALSE, invoked |-> TRUE, value |-> h.value]
    ELSE [raised |-> FALSE, invoked |-> FALSE,
          value |-> ErrorResult(UnknownToolMsg(name))]

\* ------------------------------------------------------------------------
\* Model responses
\* ------------------------------------------------------------------------

TextBlock(t) == [type |-> "text", text |-> t]
ToolUseBlock(n, i) == [type |-> "tool_use", id |-> 0, name |-> n, input |-> i]

\* A registered tool of each agent whose handler has no try/except of its
\* own, so that a failure of its collaborator reaches the executor.
PlainTool(a) ==
    CASE a = "viktor" -> "search_deals"
      [] a = "research" -> "get_attio_deal_history"
      [] a = "signal" -> "search_deals"
      [] a = "planner" -> "get_pipeline_for_capacity_check"

Word == <<"Done.">>
Blank == <<" ">>

\* The blocks a response that requests tools is built from.
RequestBlocks(a) ==
    {TextBlock(Word),
     ToolUseBlock(PlainTool(a), "ok"),
     ToolUseBlock(PlainTool(a), "fails"),
     ToolUseBlock(UnknownName, "ok")}

\* The texts a final answer is built from.
AnswerTexts(a) ==
    IF a = "signal"
    THEN {<<"{", "\"deal_name\"", ":", "\"Nike\"", "}">>,
          <<"[", "1", "]">>,
          Word, Blank}
    ELSE {Word, Blank}

AnswerBlocks(a) ==
    {TextBlock(t) : t \in AnswerTexts(a)}
        \cup {ToolUseBlock(PlainTool(a), "ok")}

\* The blocks of a response that stops for another reason.
OtherBlocks(a) == {TextBlock(Word), ToolUseBlock(PlainTool(a), "ok")}

SeqsUpTo(S, n) == UNION {[1..k -> S] : k \in 0..n}

\* The plain single tool request.
PlainRequest(a) == <<ToolUseBlock(PlainTool(a), "ok")>>

\* The contents of the tool_use response to call number made + 1.
Requests(a, made) ==
    IF made < MaxRichTurns
    THEN SeqsUpTo(RequestBlocks(a), MaxBlocks)
    ELSE {PlainRequest(a)}

\* The model transport gives every tool_use block an id of its own:
\* block i of the response to call c gets id 10 * c + i.
WithIds(content, c) ==
    [i \in 1..Len(content) |->
        IF content[i].type = "tool_use"
        THEN [content[i] EXCEPT !.id = 10 * c + i]
        ELSE content[i]]

StopReasons == {"end_turn", "tool_use", "max_tokens"}

NoResponse == [stop_reason |-> "none", content |-> <<>>]

\* ------------------------------------------------------------------------
\* Result extraction
\* ------------------------------------------------------------------------

RECURSIVE TextParts(_)
TextParts(content) ==
    IF content = <<>> THEN <<>>
    ELSE IF "text" \in DOMAIN Head(content)
         THEN <<Head(content).text>> \o TextParts(Tail(content))
         ELSE TextParts(Tail(content))

\* _extract_text: the text blocks joined by newlines, stripped.
_extract_text(response) == Strip(Join(<<"\n">>, TextParts(response.content)))

\* ------------------------------------------------------------------------
\* JSON values and json.loads
\* ------------------------------------------------------------------------

NumberLits == {"0", "1", "0.0", "10.0", "30.0", "50.0"}
StringLits == {"\"\"", "\"deal_name\"", "\"Nike\"", "\"low\"",
               "\"Signal detected\"",
               "\"name\"", "\"stage\"", "\"probability\"", "\"value\"",
               "\"close_date\"", "\"updated_at\"", "\"d1\"", "\"d2\"",
               "\"Lead\"", "\"Won\"", "\"2025-07-01\"", "\"2025-07-05\""}
BoolLits == {"true", "false"}

\* U+2028 LINE SEPARATOR: json.loads accepts it unescaped inside a string
\* and nowhere else, and str.splitlines() ends a line at it. The string
\* "x<LS>y" is the three tokens of LineSepString.
LineSepString == <<"\"x", "<LS>", "y\"">>

\* Python values: v is a sequence in every case.
JNull == [t |-> "null", v |-> <<>>]
JNum(c) == [t |-> "num", v |-> <<c>>]
JStr(c) == [t |-> "str", v |-> <<c>>]
JBool(c) == [t |-> "bool", v |-> <<c>>]
JList(items) == [t |-> "list", v |-> items]
\* A dict is the sequence of its <<key, value>> pairs in insertion order.
JDict(pairs) == [t |-> "dict", v |-> pairs]

\* Python truthiness.
Truthy(x) ==
    CASE x.t = "null" -> FALSE
      [] x.t = "num" -> x.v \notin {<<"0">>, <<"0.0">>}
      [] x.t = "str" -> x.v # <<"\"\"">>
      [] x.t = "bool" -> x.v = <<"true">>
      [] x.t = "list" -> x.v # <<>>
      [] x.t = "dict" -> x.v # <<>>

HasKey(pairs, k) == \E i \in 1..Len(pairs) : pairs[i][1] = k

\* d[k] = val
DictSet(pairs, k, val) ==
    IF HasKey(pairs, k)
    THEN [i \in 1..Len(pairs) |->
            IF pairs[i][1] = k THEN <<k, val>> ELSE pairs[i]]
    ELSE Append(pairs, <<k, val>>)

\* d.setdefault(k, val)
SetDefault(pairs, k, val) ==
    IF HasKey(pairs, k) THEN pairs ELSE Append(pairs, <<k, val>>)

ParseFail == [ok |-> FALSE, val |-> JNull, next |-> 0]
Parsed(x, n) == [ok |-> TRUE, val |-> x, next |-> n]

RECURSIVE ParseValue(_, _)
RECURSIVE ParseElements(_, _, _)
RECURSIVE ParseMembers(_, _, _)

\* One JSON value starting at token i of t.
ParseValue(t, i) ==
    IF i > Len(t) THEN ParseFail
    ELSE LET c == t[i]
         IN  CASE c \in NumberLits -> Parsed(JNum(c), i + 1)
               [] c \in StringLits -> Parsed(JStr(c), i + 1)
               [] c = LineSepString[1] ->
                    IF i + 2 <= Len(t) /\ SubSeq(t, i, i + 2) = LineSepString
                    THEN Parsed(JStr("\"x<LS>y\""), i + 3)
                    ELSE ParseFail
               [] c \in BoolLits -> Parsed(JBool(c), i + 1)
               [] c = "null" -> Parsed(JNull, i + 1)
               [] c = "[" ->
                    IF i + 1 <= Len(t) /\ t[i + 1] = "]"
                    THEN Parsed(JList(<<>>), i + 2)
                    ELSE ParseElements(t, i + 1, <<>>)
               [] c = "{" ->
                    IF i + 1 <= Len(t) /\ t[i + 1] = "}"
                    THEN Parsed(JDict(<<>>), i + 2)
                    ELSE ParseMembers(t, i + 1, <<>>)
               [] OTHER -> ParseFail

ParseElements(t, i, acc) ==
    LET e == ParseValue(t, i)
    IN  IF ~e.ok \/ e.next > Len(t) THEN ParseFail
        ELSE IF t[e.next] = ","
             THEN ParseElements(t, e.next + 1, Append(acc, e.val))
             ELSE IF t[e.next] = "]"
                  THEN Parsed(JList(Append(acc, e.val)), e.next + 1)
                  ELSE ParseFail

ParseMembers(t, i, acc) ==
    IF i + 1 > Len(t) \/ t[i] \notin StringLits \/ t[i + 1] # ":"
    THEN ParseFail
    ELSE LET e == ParseValue(t, i + 2)
         IN  IF ~e.ok \/ e.next > Len(t) THEN ParseFail
             ELSE IF t[e.next] = ","
                  THEN ParseMembers(t, e.next + 1, DictSet(acc, t[i], e.val))
                  ELSE IF t[e.next] = "}"
                       THEN Parsed(JDict(DictSet(acc, t[i], e.val)),
                                   e.next + 1)
                       ELSE ParseFail

NotWhitespace(c) == c \notin Whitespace

\* json.loads: [ok, val]; ok is FALSE where json.loads raises.  Whitespace
\* between lexemes is skipped and nothing may follow the value.
json_loads(s) ==
    LET t == SelectSeq(s, NotWhitespace)
        r == ParseValue(t, 1)
    IN  IF r.ok /\ r.next = Len(t) + 1
        THEN [ok |-> TRUE, val |-> r.val]
        ELSE [ok |-> FALSE, val |-> JNull]

\* ------------------------------------------------------------------------
\* The signal agent's final-answer parser
\* ------------------------------------------------------------------------

\* The token of a code-fence marker (three backquotes).
Fence == "<fence>"

\* s.startswith(Fence)
StartsWithFence(s) == s # <<>> /\ s[1] = Fence

\* str.splitlines(): the lines of s without their line ends.
RECURSIVE SplitLinesFrom(_, _, _)
SplitLinesFrom(s, i, cur) ==
    IF i > Len(s) THEN (IF cur = <<>> THEN <<>> ELSE <<cur>>)
    ELSE IF s[i] \in {"\n", LineSepString[2]}
         THEN <<cur>> \o SplitLinesFrom(s, i + 1, <<>>)
         ELSE SplitLinesFrom(s, i + 1, Append(cur, s[i]))

SplitLines(s) == SplitLinesFrom(s, 1, <<>>)

NotFenceLine(l) == ~StartsWithFence(l)

\* s.find(c) and s.rfind(c) as 1-based positions, 0 when c is absent.
Find(s, c) ==
    IF \E i \in 1..Len(s) : s[i] = c
    THEN CHOOSE i \in 1..Len(s) :
            s[i] = c /\ \A j \in 1..(i - 1) : s[j] # c
    ELSE 0

RFind(s, c) ==
    IF \E i \in 1..Len(s) : s[i] = c
    THEN CHOOSE i \in 1..Len(s) :
            s[i] = c /\ \A j \in (i + 1)..Len(s) : s[j] # c
    ELSE 0

\* _parse_json_response: the parsed value, JNull for None.
_parse_json_response(text0) ==
    LET text1 == Strip(text0)
        text == IF StartsWithFence(text1)
                THEN Strip(Join(<<"\n">>,
                                SelectSeq(SplitLines(text1), NotFenceLine)))
                ELSE text1
        whole == json_loads(text)
        start == Find(text, "{")
        end == RFind(text, "}")
    IN  IF whole.ok THEN whole.val
        ELSE IF start >= 1 /\ end >= start
             THEN LET span == json_loads(SubSeq(text, start, end))
                  IN  IF span.ok THEN span.val ELSE JNull
             ELSE JNull

\* _empty_result
_empty_result ==
    JDict(<< <<"\"deal_name\"", JNull>>,
             <<"\"record_id\"", JNull>>,
             <<"\"confidence\"", JStr("\"low\"")>>,
             <<"\"note_title\"", JStr("\"Signal detected\"")>>,
             <<"\"note_body\"", JStr("\"\"")>>,
             <<"\"key_signals\"", JList(<<>>)>>,
             <<"\"action_items\"", JList(<<>>)>>,
             <<"\"urgency\"", JStr("\"low\"")>>,
             <<"\"logged\"", JBool("false")>>,
             <<"\"candidates\"", JList(<<>>)>> >>)

\* The defaults put in place of the parsed mapping.
WithDefaults_replace(pairs, defaults) == defaults

\* The ten result.setdefault calls of run_signal_agent.
RECURSIVE WithDefaults(_, _)
WithDefaults(pairs, defaults) ==
    IF defaults = <<>> THEN pairs
    ELSE WithDefaults(SetDefault(pairs, Head(defaults)[1], Head(defaults)[2]),
                      Tail(defaults))

\* ------------------------------------------------------------------------
\* The texts the agents return or post
\* ------------------------------------------------------------------------

ViktorFallbackText == <<"_I got a bit turned around on that one._">>
ResearchEmptyText == <<"_No research found for company_">>
ResearchTimedOutText == <<"_Research timed out for company._">>
PlannerEmptyText == <<"_Production plan created for name._">>
PlannerTimedOutText == <<"_Production planning timed out for name._">>

\* What a run returns: None, a string or a mapping.
RNone == [kind |-> "none", val |-> <<>>]
RStr(s) == [kind |-> "str", val |-> s]
RMap(d) == [kind |-> "map", val |-> d.v]

\* How one step of a run ends: where the run stands afterwards, what it
\* returns, what it posts through say, and what raised if it raised.
Outcome(p, r, posts, by) ==
    [pc |-> p, result |-> r, say |-> posts, raisedBy |-> by]

\* run_viktor posting its fallback text instead of the model's answer.
viktor_end_turn_fallback(response) ==
    Outcome("returned", RNone, <<ViktorFallbackText>>, "")

\* The end_turn branch of run_viktor.
viktor_end_turn(response) ==
    LET text == _extract_text(response)
    IN  IF text # <<>>
        THEN Outcome("returned", RNone, <<text>>, "")
        ELSE Outcome("returned", RNone, <<>>, "")

\* The end_turn branch of run_research_agent.
research_end_turn(response) ==
    LET brief == _extract_text(response)
    IN  Outcome("returned",
                RStr(IF brief # <<>> THEN brief ELSE ResearchEmptyText),
                <<>>, "")

\* The end_turn branch of run_production_planner.
planner_end_turn(response) ==
    LET brief == _extract_text(response)
    IN  Outcome("returned",
                RStr(IF brief # <<>> THEN brief ELSE PlannerEmptyText),
                <<>>, "")

\* The end_turn branch of run_signal_agent.  result.setdefault exists on a
\* mapping only: on any other truthy value it raises AttributeError.
signal_end_turn(response) ==
    LET raw_text == _extract_text(response)
        result == _parse_json_response(raw_text)
    IN  IF Truthy(result)
        THEN IF result.t = "dict"
             THEN Outcome("returned",
                          RMap(JDict(WithDefaults(result.v, _empty_result.v))),
                          <<>>, "")
             ELSE Outcome("raised", RNone, <<>>, "final_answer")
        ELSE Outcome("returned", RMap(_empty_result), <<>>, "")

end_turn(a, response) ==
    CASE a = "viktor" -> viktor_end_turn(response)
      [] a = "research" -> research_end_turn(response)
      [] a = "signal" -> signal_end_turn(response)
      [] a = "planner" -> planner_end_turn(response)

\* The code after the loop with run_viktor returning without a post.
after_loop_silent(a) ==
    CASE a = "viktor" -> Outcome("exhausted", RNone, <<>>, "")
      [] a = "research" ->
            Outcome("exhausted", RStr(ResearchTimedOutText), <<>>, "")
      [] a = "signal" -> Outcome("exhausted", RMap(_empty_result), <<>>, "")
      [] a = "planner" ->
            Outcome("exhausted", RStr(PlannerTimedOutText), <<>>, "")

\* The code after the for loop of each run: reached when the turn budget
\* is used up and by the break on an unexpected stop reason.
after_loop(a) ==
    CASE a = "viktor" -> Outcome("exhausted", RNone, <<ViktorFallbackText>>, "")
      [] a = "research" ->
            Outcome("exhausted", RStr(ResearchTimedOutText), <<>>, "")
      [] a = "signal" -> Outcome("exhausted", RMap(_empty_result), <<>>, "")
      [] a = "planner" ->
            Outcome("exhausted", RStr(PlannerTimedOutText), <<>>, "")

\* ------------------------------------------------------------------------
\* The agent loop
\* ------------------------------------------------------------------------

VARIABLES
    agent,      \* which of the four loops runs
    pc,         \* "loop": about to call the model; "returned": returned from
                \* the end_turn branch; "exhausted": returned from the code
                \* after the loop; "raised": an exception left the run
    turn,       \* the loop variable of  for turn in range(MAX_TURNS)
    messages,   \* the conversation
    response,   \* the last response of the model
    calls,      \* number of model calls made so far
    invoked,    \* ids of the tool_use blocks a handler was called for
    says,       \* the texts posted through say
    result,     \* what the run returned
    raisedBy,   \* what raised, when pc = "raised"
    exec        \* one call of _execute_tool made on its own: its
                \* arguments and, once it is done, its outcome

\* The state of the collaborators the loops share. Each is modelled in a
\* section of its own below; a run of one part leaves the others alone.
VARIABLES
    _deal_cache,     \* attio.py: the cached deal list, or None
    _deal_cache_ts,  \* attio.py: time.monotonic() when it was stored
    clock,           \* the value time.monotonic() returns now
    crm,             \* the deal list as the CRM holds it
    tasks,           \* the invocations of the CRM client, in start order
    call,            \* one call of a function checked on its own: its
                     \* arguments and, once it is done, its outcome
    pages,           \* the pages of the Notion production database
    upserts,         \* the invocations of the Notion upsert
    processed_ids,   \* state.py: the rows of table processed_ids
    snapshots,       \* state.py: the rows of table snapshots
    runs,            \* the agent runs started by the automation entry
                     \* points, in start order
    threads          \* the threads calling the state store: where each
                     \* is in mark_processed

loopVars == <<agent, pc, turn, messages, response, calls, invoked, says,
              result, raisedBy, exec>>

cacheVars == <<_deal_cache, _deal_cache_ts, clock, crm, tasks>>

\* The two databases: Notion and the state store.
dbVars == <<pages, upserts, processed_ids, snapshots, runs, threads>>

vars == <<loopVars, cacheVars, call, dbVars>>

NoExec == [agent |-> "viktor", name |-> "", input |-> "ok", done |-> FALSE,
           out |-> [raised |-> FALSE, invoked |-> FALSE, value |-> ValueResult]]

UserMessage == [role |-> "user", content |-> <<"user_message">>]

\* Python's None, and a value that is not None.
None == <<>>

Some(v) == <<v>>

NoCall == [fn |-> "", done |-> FALSE]

\* The threads that call mark_processed on the one store, and how many
\* marks each makes.
Threads == {"thread-0", "thread-1"}

MaxMarks == 2

\* The collaborators at process start (attio.py lines 31-32, an empty
\* Notion database, an empty state database), and the single call c.
Collaborators(c) ==
    /\ _deal_cache = None
    /\ _deal_cache_ts = 0
    /\ clock = 0
    /\ crm = 0
    /\ tasks = <<>>
    /\ call = c
    /\ pages = <<>>
    /\ upserts = <<>>
    /\ processed_ids = {}
    /\ snapshots = {}
    /\ runs = <<>>
    /\ threads = [t \in Threads |->
                    [pc |-> "out", item_id |-> "", left |-> MaxMarks,
                     marked |-> {}, raised |-> FALSE]]

Init ==
    /\ agent \in Agents
    /\ pc = "loop"
    /\ turn = 0
    /\ messages = <<UserMessage>>
    /\ response = NoResponse
    /\ calls = 0
    /\ invoked = <<>>
    /\ says = <<>>
    /\ result = RNone
    /\ raisedBy = ""
    /\ exec = NoExec
    /\ Collaborators(NoCall)

\* The loop with an off-by-one budget: range(MAX_TURNS + 1).
InRange_inclusive(a, t) == t <= MAX_TURNS(a)

\* for turn in range(MAX_TURNS): the loop body runs for this value of turn.
InRange(a, t) == t < MAX_TURNS(a)

\* A tool_result that names the position of the block instead of its id.
tool_result_position(id, value) ==
    [type |-> "tool_result", tool_use_id |-> id % 10, content |-> Dumps(value)]

tool_result(id, value) ==
    [type |-> "tool_result", tool_use_id |-> id, content |-> Dumps(value)]

NoTools == [raised |-> FALSE, results |-> <<>>, invoked |-> <<>>]

\* The iteration over the blocks leaving at the first error result.
RECURSIVE RunTools_stop_at_error(_, _, _)
RunTools_stop_at_error(a, blocks, st) ==
    IF blocks = <<>> \/ st.raised THEN st
    ELSE LET block == Head(blocks)
         IN  IF block.type # "tool_use"
             THEN RunTools_stop_at_error(a, Tail(blocks), st)
             ELSE LET r == _execute_tool(a, block.name, block.input)
                      st2 == [raised |-> r.raised,
                              results |->
                                 IF r.raised THEN st.results
                                 ELSE Append(st.results,
                                             tool_result(block.id, r.value)),
                              invoked |->
                                 IF r.invoked
                                 THEN Append(st.invoked, block.id)
                                 ELSE st.invoked]
                  IN  IF r.value.shape = "error_map" THEN st2
                      ELSE RunTools_stop_at_error(a, Tail(blocks), st2)

\* for block in response.content: the tool_use blocks are executed in
\* order; st is the state of the iteration.
RECURSIVE RunTools(_, _, _)
RunTools(a, blocks, st) ==
    IF blocks = <<>> \/ st.raised THEN st
    ELSE LET block == Head(blocks)
         IN  IF block.type # "tool_use"
             THEN RunTools(a, Tail(blocks), st)
             ELSE LET r == _execute_tool(a, block.name, block.input)
                  IN  RunTools(a, Tail(blocks),
                        [raised |-> r.raised,
                         results |->
                            IF r.raised THEN st.results
                            ELSE Append(st.results,
                                        tool_result(block.id, r.value)),
                         invoked |->
                            IF r.invoked THEN Append(st.invoked, block.id)
                            ELSE st.invoked])

Finish(o) ==
    /\ pc' = o.pc
    /\ result' = o.result
    /\ says' = says \o o.say
    /\ raisedBy' = o.raisedBy

\* _claude.messages.create raises: the exception leaves the run.
TransportFailure ==
    /\ pc = "loop"
    /\ InRange(agent, turn)
    /\ calls' = calls + 1
    /\ pc' = "raised"
    /\ raisedBy' = "model_call"
    /\ UNCHANGED <<agent, turn, messages, response, invoked, says, result,
                   exec>>
    /\ UNCHANGED <<cacheVars, call, dbVars>>

\* The model answers with stop_reason "end_turn".
EndTurn ==
    /\ pc = "loop"
    /\ InRange(agent, turn)
    /\ \E c \in SeqsUpTo(AnswerBlocks(agent), MaxAnswerBlocks) :
        LET r == [stop_reason |-> "end_turn",
                  content |-> WithIds(c, calls + 1)]
        IN  /\ response' = r
            /\ calls' = calls + 1
            /\ Finish(end_turn(agent, r))
    /\ UNCHANGED <<agent, turn, messages, invoked, exec>>
    /\ UNCHANGED <<cacheVars, call, dbVars>>

\* The tool_use branch without messages.append of the assistant message:
\* only the user message with the results is appended.
ToolUse_drops_assistant ==
    /\ pc = "loop"
    /\ InRange(agent, turn)
    /\ \E c \in Requests(agent, calls) :
        LET r == [stop_reason |-> "tool_use",
                  content |-> WithIds(c, calls + 1)]
            st == RunTools(agent, r.content, NoTools)
        IN  /\ response' = r
            /\ calls' = calls + 1
            /\ invoked' = invoked \o st.invoked
            /\ messages' =
                  Append(messages, [role |-> "user", content |-> st.results])
            /\ turn' = turn + 1
            /\ IF InRange(agent, turn + 1)
               THEN /\ pc' = "loop"
                    /\ UNCHANGED <<says, result, raisedBy>>
               ELSE Finish(after_loop(agent))
    /\ UNCHANGED <<agent, exec>>
    /\ UNCHANGED <<cacheVars, call, dbVars>>

\* A loop that tests the budget before it runs the tools: the tools of the
\* response to the last budgeted call are not executed.
ToolUse_skips_last_batch ==
    /\ pc = "loop"
    /\ InRange(agent, turn)
    /\ \E c \in Requests(agent, calls) :
        LET r == [stop_reason |-> "tool_use",
                  content |-> WithIds(c, calls + 1)]
            st == IF InRange(agent, turn + 1)
                  THEN RunTools(agent, r.content, NoTools)
                  ELSE NoTools
        IN  /\ response' = r
            /\ calls' = calls + 1
            /\ invoked' = invoked \o st.invoked
            /\ messages' =
                  Append(Append(messages, [role |-> "assistant",
                                           content |-> r.content]),
                         [role |-> "user", content |-> st.results])
            /\ turn' = turn + 1
            /\ IF InRange(agent, turn + 1)
               THEN /\ pc' = "loop"
                    /\ UNCHANGED <<says, result, raisedBy>>
               ELSE Finish(after_loop(agent))
    /\ UNCHANGED <<agent, exec>>
    /\ UNCHANGED <<cacheVars, call, dbVars>>

\* The model answers with stop_reason "tool_use": the assistant message is
\* appended, every tool_use block is executed, the results are appended as
\* one user message and the loop goes on to the next value of turn.
ToolUse ==
    /\ pc = "loop"
    /\ InRange(agent, turn)
    /\ \E c \in Requests(agent, calls) :
        LET r == [stop_reason |-> "tool_use",
                  content |-> WithIds(c, calls + 1)]
            st == RunTools(agent, r.content, NoTools)
            withAssistant ==
                Append(messages, [role |-> "assistant", content |-> r.content])
        IN  /\ response' = r
            /\ calls' = calls + 1
            /\ invoked' = invoked \o st.invoked
            /\ IF st.raised
               THEN /\ messages' = withAssistant
                    /\ turn' = turn
                    /\ pc' = "raised"
                    /\ raisedBy' = "tool"
                    /\ UNCHANGED <<says, result>>
               ELSE /\ messages' =
                        Append(withAssistant,
                               [role |-> "user", content |-> st.results])
                    /\ turn' = turn + 1
                    /\ IF InRange(agent, turn + 1)
                       THEN /\ pc' = "loop"
                            /\ UNCHANGED <<says, result, raisedBy>>
                       ELSE Finish(after_loop(agent))
    /\ UNCHANGED <<agent, exec>>
    /\ UNCHANGED <<cacheVars, call, dbVars>>

\* An unexpected stop reason treated like a turn without tools: the loop
\* goes on to the next model call.
OtherStop_continues ==
    /\ pc = "loop"
    /\ InRange(agent, turn)
    /\ \E c \in SeqsUpTo(OtherBlocks(agent), MaxAnswerBlocks) :
        LET r == [stop_reason |-> "max_tokens",
                  content |-> WithIds(c, calls + 1)]
        IN  /\ response' = r
            /\ calls' = calls + 1
            /\ turn' = turn + 1
            /\ IF InRange(agent, turn + 1)
               THEN /\ pc' = "loop"
                    /\ UNCHANGED <<says, result, raisedBy>>
               ELSE Finish(after_loop(agent))
    /\ UNCHANGED <<agent, messages, invoked, exec>>
    /\ UNCHANGED <<cacheVars, call, dbVars>>

\* The model answers with any other stop_reason: break.
OtherStop ==
    /\ pc = "loop"
    /\ InRange(agent, turn)
    /\ \E c \in SeqsUpTo(OtherBlocks(agent), MaxAnswerBlocks) :
        LET r == [stop_reason |-> "max_tokens",
                  content |-> WithIds(c, calls + 1)]
        IN  /\ response' = r
            /\ calls' = calls + 1
            /\ Finish(after_loop(agent))
    /\ UNCHANGED <<agent, turn, messages, invoked, exec>>
    /\ UNCHANGED <<cacheVars, call, dbVars>>

Next ==
    \/ TransportFailure
    \/ EndTurn
    \/ ToolUse
    \/ OtherStop

Spec == Init /\ [][Next]_vars

\* ------------------------------------------------------------------------
\* The tool executor on its own: one call of _execute_tool for every agent,
\* every registered or unregistered name and every kind of argument mapping
\* ------------------------------------------------------------------------

ExecInit ==
    /\ agent = "viktor"
    /\ pc = "idle"
    /\ turn = 0
    /\ messages = <<UserMessage>>
    /\ response = NoResponse
    /\ calls = 0
    /\ invoked = <<>>
    /\ says = <<>>
    /\ result = RNone
    /\ raisedBy = ""
    /\ \E a \in Agents :
       \E n \in TOOLS(a) \cup {UnknownName} :
       \E i \in Inputs :
          exec = [NoExec EXCEPT !.agent = a, !.name = n, !.input = i]
    /\ Collaborators(NoCall)

Dispatch ==
    /\ pc = "idle"
    /\ ~exec.done
    /\ exec' = [exec EXCEPT !.done = TRUE,
                            !.out = _execute_tool(exec.agent, exec.name,
                                                  exec.input)]
    /\ UNCHANGED <<agent, pc, turn, messages, response, calls, invoked, says,
                   result, raisedBy>>
    /\ UNCHANGED <<cacheVars, call, dbVars>>

ExecNext == Dispatch

SpecExec == ExecInit /\ [][ExecNext]_vars

\* ------------------------------------------------------------------------
\* Properties of the agent loop
\* ------------------------------------------------------------------------

InvokedIds == {invoked[i] : i \in DOMAIN invoked}

\* The positions of the assistant messages of the conversation.
AssistantPositions == {k \in DOMAIN messages : messages[k].role = "assistant"}

ToolUseBlocks(content) ==
    {content[i] : i \in {j \in DOMAIN content : content[j].type = "tool_use"}}

\* The positions in the user message u of the results that answer id.
AnswersTo(u, id) == {j \in DOMAIN u.content : u.content[j].tool_use_id = id}

\* Every response up to now had stop_reason "tool_use" and was processed
\* to its end: each such response adds two messages, nothing else adds any.
AllToolUse == Len(messages) = 2 * calls + 1

\* The run ended in the code after the loop with that code's outcome.
ExhaustedOutcome ==
    /\ pc = "exhausted"
    /\ CASE agent = "viktor" ->
                result.kind = "none" /\ says = <<ViktorFallbackText>>
         [] agent = "research" ->
                result.kind = "str" /\ result.val = ResearchTimedOutText
         [] agent = "planner" ->
                result.kind = "str" /\ result.val = PlannerTimedOutText
         [] agent = "signal" ->
                result.kind = "map" /\ result.val = _empty_result.v

\* C1: in every run of each of the four loops the number of model calls
\* never exceeds the agent's MAX_TURNS (8, 6, 5, 6).
C1_CallsWithinBudget ==
    pc # "idle" => calls <= MAX_TURNS(agent)

\* A run that spent its whole budget and got its answer on the last call.
C1_Witness ==
    /\ calls = MAX_TURNS(agent)
    /\ response.stop_reason = "end_turn"
    /\ pc = "returned"

\* C2: when the model answers every call with tool_use, the run is over
\* once MAX_TURNS calls are made, it has then made exactly MAX_TURNS calls
\* and ended with the Exhausted outcome (viktor: the fallback posted exactly
\* once; research, planner: the timed-out text; signal: the empty default).
C2_AlwaysToolUseExhausts ==
    (pc # "idle" /\ AllToolUse) =>
        /\ calls >= MAX_TURNS(agent) => pc # "loop"
        /\ pc # "loop" => (calls = MAX_TURNS(agent) /\ ExhaustedOutcome)

C2_Witness ==
    /\ AllToolUse
    /\ agent = "viktor"
    /\ calls = MAX_TURNS_viktor
    /\ says = <<ViktorFallbackText>>

C4_NoOrphanedRequests ==
    (pc = "loop" /\ calls >= 1) =>
        /\ messages[Len(messages)].role = "user"
        /\ messages[Len(messages) - 1].role = "assistant"
        /\ \A k \in AssistantPositions :
            /\ k + 1 \in DOMAIN messages
            /\ messages[k + 1].role = "user"
            /\ \A b \in ToolUseBlocks(messages[k].content) :
                  Cardinality(AnswersTo(messages[k + 1], b.id)) = 1
            /\ \A j \in DOMAIN messages[k + 1].content :
                  \E b \in ToolUseBlocks(messages[k].content) :
                     messages[k + 1].content[j].tool_use_id = b.id

\* A second model call is due after a response that asked for two tools.
C4_Witness ==
    /\ pc = "loop"
    /\ calls >= 1
    /\ Cardinality(ToolUseBlocks(messages[Len(messages) - 1].content)) = 2
    /\ Len(messages[Len(messages)].content) = 2

\* What the executor is to hand back for the tool_use block b.
HandlerOf(b) == Handler(agent, b.name, b.input)

\* The one tool_result of the user message u that answers id holds value.
AnsweredWith(u, id, value) ==
    /\ Cardinality(AnswersTo(u, id)) = 1
    /\ \A j \in AnswersTo(u, id) : u.content[j].content = Dumps(value)

HandlerRaisesFor(b) == b.name \in TOOLS(agent) /\ HandlerOf(b).raises

\* C5: when an assistant message requests several tools and the handler of
\* one of them raises, the handler of every other registered tool of the
\* message is still called, every requested tool has its own tool_result in
\* the user message that follows, and the failing tool's result there is
\* the mapping {error: <its exception's message>}.
C5_FailureIsolatedInBatch ==
    \A k \in AssistantPositions :
        LET blocks == ToolUseBlocks(messages[k].content)
        IN  (Cardinality(blocks) >= 2 /\ \E b \in blocks : HandlerRaisesFor(b))
            =>  /\ k + 1 \in DOMAIN messages
                /\ messages[k + 1].role = "user"
                /\ \A b \in blocks :
                    /\ b.name \in TOOLS(agent) => b.id \in InvokedIds
                    /\ IF HandlerRaisesFor(b)
                       THEN AnsweredWith(messages[k + 1], b.id,
                                         ErrorResult(HandlerOf(b).msg))
                       ELSE IF b.name \in TOOLS(agent)
                            THEN AnsweredWith(messages[k + 1], b.id,
                                              HandlerOf(b).value)
                            ELSE Cardinality(AnswersTo(messages[k + 1], b.id))
                                    = 1

\* The first tool of a message failed, the second ran and succeeded, and the
\* next model call is due.
C5_Witness ==
    /\ pc = "loop"
    /\ \E k \in AssistantPositions :
        LET c == messages[k].content
        IN  /\ Len(c) = 2
            /\ c[1].type = "tool_use" /\ c[2].type = "tool_use"
            /\ HandlerRaisesFor(c[1])
            /\ c[2].name \in TOOLS(agent) /\ ~HandlerOf(c[2]).raises
            /\ c[2].id \in InvokedIds
            /\ AnsweredWith(messages[k + 1], c[1].id,
                            ErrorResult(CollaboratorMsg))
            /\ AnsweredWith(messages[k + 1], c[2].id, ValueResult)

\* C6: a requested tool whose name the agent does not register has no
\* handler called, is answered by {error: "Unknown tool: <name>"} in the
\* user message that follows, and does not end the run: after that response
\* the loop is at its next model call, has made it and seen it fail, or is
\* out of budget.
C6_UnknownToolIsAnError ==
    \A k \in AssistantPositions :
        \A b \in ToolUseBlocks(messages[k].content) :
            b.name \notin TOOLS(agent) =>
                /\ b.id \notin InvokedIds
                /\ k + 1 \in DOMAIN messages
                /\ AnsweredWith(messages[k + 1], b.id,
                                ErrorResult(<<"Unknown tool: ", b.name>>))
                /\ (k + 1 = Len(messages) /\ response.stop_reason = "tool_use")
                     => \/ pc = "loop"
                        \/ pc = "exhausted" /\ calls = MAX_TURNS(agent)
                        \/ pc = "raised" /\ raisedBy = "model_call"
                                         /\ calls = turn + 1

C6_Witness ==
    /\ pc = "loop"
    /\ response.stop_reason = "tool_use"
    /\ \E b \in ToolUseBlocks(response.content) :
        /\ b.name = UnknownName
        /\ AnsweredWith(messages[Len(messages)], b.id,
                        ErrorResult(<<"Unknown tool: ", UnknownName>>))

\* C7: after a response whose stop reason is neither end_turn nor tool_use
\* the run is over with the outcome of turn-budget exhaustion: that call
\* was the last one, the response was not appended and no handler was
\* called for a tool_use block of it.
C7_OtherStopEndsRun ==
    (response.stop_reason \notin {"none", "end_turn", "tool_use"}) =>
        /\ ExhaustedOutcome
        /\ calls = turn + 1
        /\ Len(messages) = 2 * turn + 1
        /\ \A b \in ToolUseBlocks(response.content) : b.id \notin InvokedIds

\* The run stopped on an unexpected stop reason before its budget was used
\* up, with a tool request in the response.
C7_Witness ==
    /\ response.stop_reason = "max_tokens"
    /\ pc = "exhausted"
    /\ calls < MAX_TURNS(agent)
    /\ ToolUseBlocks(response.content) # {}

\* C8: when the model signals end_turn with no text, every agent puts a
\* non-empty fallback in place of the answer: run_viktor posts exactly one
\* message in every run that ends without an exception, research and
\* planner never return an empty string, the signal agent returns its
\* default mapping.
C8_EmptyAnswerGetsFallback ==
    /\ (pc \in {"returned", "exhausted"} /\ agent = "viktor")
            => Len(says) = 1
    /\ (pc \in {"returned", "exhausted"} /\ agent \in {"research", "planner"})
            => (result.kind = "str" /\ result.val # <<>>)
    /\ (pc = "returned" /\ agent = "signal"
            /\ _extract_text(response) = <<>>)
            => (result.kind = "map" /\ result.val = _empty_result.v)

\* C9: for every agent, every tool name and every argument mapping
\* _execute_tool returns; when the handler it dispatches to raises, what it
\* returns is the mapping {error: <the exception's message>}.
C9_ExecutorNeverRaises ==
    exec.done =>
        /\ ~exec.out.raised
        /\ LET h == Handler(exec.agent, exec.name, exec.input)
           IN  (exec.name \in TOOLS(exec.agent) /\ h.raises) =>
                    /\ exec.out.value.shape = "error_map"
                    /\ exec.out.value.error = h.msg

\* A registered handler was called with arguments that do not bind.
C9_Witness ==
    /\ exec.done
    /\ exec.name \in TOOLS(exec.agent)
    /\ exec.input = "bad_args"
    /\ exec.out.value = ErrorResult(TypeErrorMsg)

\* C10: an exception leaves a run only when the model call itself failed.
C10_OnlyTransportFailureEscapes ==
    pc = "raised" => raisedBy = "model_call"

\* C35: in every agent loop the conversation starts with one user message
\* and alternates between user and assistant messages; at every model call
\* its last entry is a user message; a step changes it only by appending,
\* after a tool_use response, one assistant message with the content of the
\* response followed by one user message of tool results, and every
\* tool_use response that leaves the run alive appends that pair.
C35_ConversationIsAppendOnly ==
    /\ [](/\ messages[1] = UserMessage
          /\ \A k \in DOMAIN messages :
                messages[k].role = IF k % 2 = 1 THEN "user" ELSE "assistant"
          /\ pc = "loop" => messages[Len(messages)].role = "user")
    /\ [][/\ \/ messages' = messages
             \/ /\ response'.stop_reason = "tool_use"
                /\ Len(messages') = Len(messages) + 2
                /\ SubSeq(messages', 1, Len(messages)) = messages
                /\ messages'[Len(messages) + 1] =
                      [role |-> "assistant", content |-> response'.content]
                /\ messages'[Len(messages) + 2].role = "user"
                /\ \A j \in DOMAIN messages'[Len(messages) + 2].content :
                      messages'[Len(messages) + 2].content[j].type
                          = "tool_result"
          /\ (calls' = calls + 1 /\ response'.stop_reason = "tool_use"
              /\ pc' # "raised") => Len(messages') = Len(messages) + 2
         ]_vars

\* Two tool turns are done and the third model call is due: the
\* conversation holds five messages.
C35_Witness ==
    /\ pc = "loop"
    /\ Len(messages) = 5
    /\ ToolUseBlocks(messages[2].content) # {}
    /\ ToolUseBlocks(messages[4].content) # {}

\* C36: when the model answers call number MAX_TURNS with tool_use, the
\* handler of every registered tool the response names is still called and
\* its result recorded, the run then ends with the Exhausted outcome and no
\* further model call is made; a run that used up its budget of turns has
\* run MAX_TURNS tool batches, one for each of its MAX_TURNS responses.
C36_LastBatchIsStillExecuted ==
    /\ [][(/\ calls' = calls + 1
           /\ calls' = MAX_TURNS(agent)
           /\ pc' # "raised"
           /\ response'.stop_reason = "tool_use") =>
             /\ \A b \in ToolUseBlocks(response'.content) :
                  /\ b.name \in TOOLS(agent) => b.id \in InvokedIds'
                  /\ Cardinality(AnswersTo(messages'[Len(messages')], b.id)) = 1
             /\ ExhaustedOutcome'
         ]_vars
    /\ [][pc # "loop" => calls' = calls]_vars
    /\ [](turn = MAX_TURNS(agent) =>
             /\ pc = "exhausted"
             /\ calls = MAX_TURNS(agent)
             /\ Cardinality(AssistantPositions) = MAX_TURNS(agent)
             /\ \A k \in AssistantPositions :
                  \A b \in ToolUseBlocks(messages[k].content) :
                     b.name \in TOOLS(agent) => b.id \in InvokedIds)

\* The signal agent asked for a tool in its answer to call number
\* MAX_TURNS: the handler was called and the run returned the default.
C36_Witness ==
    /\ agent = "signal"
    /\ pc = "exhausted"
    /\ calls = MAX_TURNS_signal
    /\ response.stop_reason = "tool_use"
    /\ \E b \in ToolUseBlocks(response.content) : b.id \in InvokedIds
    /\ result.val = _empty_result.v

\* C25: every failure of a tool call reaches the model as the mapping
\* {error: <message>}, whether the executor caught it or the handler
\* caught it itself.
C25_FailuresHaveOneShape ==
    (exec.done /\ exec.out.value.error # <<>>) =>
        exec.out.value.shape = "error_map"

\* ------------------------------------------------------------------------
\* The deal cache of the CRM client (src/clients/attio.py)
\*
\* list_deals, update_deal and add_note are coroutines: each runs without
\* interruption up to its await of the HTTP request, and again from the
\* arrival of the response to its return. Between the two, the CRM serves
\* the request and the other invocations take their steps.
\*
\* The deal list is modelled by the value of the one field the writes
\* change, and that value by the number of writes the CRM has applied: a
\* list read that carries value v was served after exactly v writes.
\* ------------------------------------------------------------------------

\* Bounds: the number of invocations of the client in a run, and the
\* number of times the clock advances.
MaxInvocations == 3

MaxTicks == 2

_DEAL_CACHE_TTL_SECONDS == 300

\* The agent loop and the single calls at rest, while another part runs.
LoopIdle ==
    /\ agent = "viktor"
    /\ pc = "idle"
    /\ turn = 0
    /\ messages = <<UserMessage>>
    /\ response = NoResponse
    /\ calls = 0
    /\ invoked = <<>>
    /\ says = <<>>
    /\ result = RNone
    /\ raisedBy = ""
    /\ exec = NoExec

\* Module state at import: nothing cached, nothing stored, no call made.
IdleInit == LoopIdle /\ Collaborators(NoCall)

\* The cache decision without the bypass flag.
use_cache_ignores_bypass(t) == ~t.filters

\* use_cache = not filters and not bypass_cache
use_cache(t) == ~t.filters /\ ~t.bypass_cache

\* The test of the cache with <= for <.
CacheFresh_inclusive(cache, ts, now) ==
    cache # None /\ now - ts <= _DEAL_CACHE_TTL_SECONDS

\* _deal_cache is not None and age < _DEAL_CACHE_TTL_SECONDS
CacheFresh(cache, ts, now) ==
    cache # None /\ now - ts < _DEAL_CACHE_TTL_SECONDS

\* A write that forgets the cache.
invalidate_cache_skipped(cache, ts) == [cache |-> cache, ts |-> ts]

\* invalidate_cache: the cache and its timestamp after the call.
invalidate_cache(cache, ts) == [cache |-> None, ts |-> 0]

Finished(t) == t.pc \in {"returned", "raised"}

\* History kept with an invocation, for the properties only: floor is the
\* largest value written by an update_deal that had returned when the
\* invocation started; sequential says that the invocation started right
\* after an update_deal returned with nothing else in flight; alone says
\* of an update_deal that nothing else was in flight when it returned.
ReturnedWrites ==
    {i \in DOMAIN tasks : tasks[i].op = "update_deal" /\ tasks[i].pc = "returned"}

Floor ==
    IF ReturnedWrites = {} THEN 0
    ELSE CHOOSE v \in {tasks[i].data : i \in ReturnedWrites} :
            \A i \in ReturnedWrites : tasks[i].data <= v

AfterQuietWrite ==
    /\ tasks # <<>>
    /\ tasks[Len(tasks)].op = "update_deal"
    /\ tasks[Len(tasks)].pc = "returned"
    /\ tasks[Len(tasks)].alone

NewTask(op, filters, bypass) ==
    LET unfiltered == op = "list_deals" /\ ~filters /\ ~bypass
    IN  [op |-> op, filters |-> filters, bypass_cache |-> bypass,
         pc |-> "awaiting", data |-> 0, hit |-> FALSE,
         floor |-> IF unfiltered THEN Floor ELSE 0,
         sequential |-> unfiltered /\ AfterQuietWrite,
         alone |-> FALSE]

\* list_deals up to its first await: a fresh cache answers an unfiltered
\* call at once, any other call sends the query to the CRM. The call is
\* made without filters, with filters, or with bypass_cache=True.
list_deals_call ==
    /\ pc = "idle"
    /\ Len(tasks) < MaxInvocations
    /\ \E args \in {[filters |-> FALSE, bypass_cache |-> FALSE],
                    [filters |-> TRUE, bypass_cache |-> FALSE],
                    [filters |-> FALSE, bypass_cache |-> TRUE]} :
        LET t == NewTask("list_deals", args.filters, args.bypass_cache)
        IN  IF use_cache(t) /\ CacheFresh(_deal_cache, _deal_cache_ts, clock)
            THEN tasks' = Append(tasks, [t EXCEPT !.pc = "returned",
                                                  !.hit = TRUE,
                                                  !.data = _deal_cache[1]])
            ELSE tasks' = Append(tasks, t)
    /\ UNCHANGED <<_deal_cache, _deal_cache_ts, clock, crm>>
    /\ UNCHANGED <<loopVars, call, dbVars>>

\* update_deal and add_note up to their await: the request is sent.
write_call ==
    /\ pc = "idle"
    /\ Len(tasks) < MaxInvocations
    /\ \E op \in {"update_deal", "add_note"} :
        tasks' = Append(tasks, NewTask(op, FALSE, FALSE))
    /\ UNCHANGED <<_deal_cache, _deal_cache_ts, clock, crm>>
    /\ UNCHANGED <<loopVars, call, dbVars>>

\* The CRM serves a request: a query reads the deal list, a patch changes
\* it, a note leaves it as it is.
CrmServes ==
    /\ pc = "idle"
    /\ \E i \in DOMAIN tasks :
        /\ tasks[i].pc = "awaiting"
        /\ crm' = IF tasks[i].op = "update_deal" THEN crm + 1 ELSE crm
        /\ tasks' = [tasks EXCEPT ![i].pc = "served", ![i].data = crm']
    /\ UNCHANGED <<_deal_cache, _deal_cache_ts, clock>>
    /\ UNCHANGED <<loopVars, call, dbVars>>

\* The CRM refuses a request for good (an error status after the retries):
\* the exception leaves the invocation.
RequestFails ==
    /\ pc = "idle"
    /\ \E i \in DOMAIN tasks :
        /\ tasks[i].pc = "awaiting"
        /\ tasks' = [tasks EXCEPT ![i].pc = "raised"]
    /\ UNCHANGED <<_deal_cache, _deal_cache_ts, clock, crm>>
    /\ UNCHANGED <<loopVars, call, dbVars>>

OthersFinished(i) == \A j \in DOMAIN tasks : j # i => Finished(tasks[j])

\* list_deals from the response to its return: an unfiltered call stores
\* the result and the time.
list_deals_return ==
    /\ pc = "idle"
    /\ \E i \in DOMAIN tasks :
        /\ tasks[i].op = "list_deals"
        /\ tasks[i].pc = "served"
        /\ tasks' = [tasks EXCEPT ![i].pc = "returned"]
        /\ IF use_cache(tasks[i])
           THEN /\ _deal_cache' = Some(tasks[i].data)
                /\ _deal_cache_ts' = clock
           ELSE UNCHANGED <<_deal_cache, _deal_cache_ts>>
    /\ UNCHANGED <<clock, crm>>
    /\ UNCHANGED <<loopVars, call, dbVars>>

\* update_deal from the response to its return: invalidate_cache().
update_deal_return ==
    /\ pc = "idle"
    /\ \E i \in DOMAIN tasks :
        /\ tasks[i].op = "update_deal"
        /\ tasks[i].pc = "served"
        /\ tasks' = [tasks EXCEPT ![i].pc = "returned",
                                  ![i].alone = OthersFinished(i)]
        /\ LET after == invalidate_cache(_deal_cache, _deal_cache_ts)
           IN  /\ _deal_cache' = after.cache
               /\ _deal_cache_ts' = after.ts
    /\ UNCHANGED <<clock, crm>>
    /\ UNCHANGED <<loopVars, call, dbVars>>

\* add_note from the response to its return.
add_note_return ==
    /\ pc = "idle"
    /\ \E i \in DOMAIN tasks :
        /\ tasks[i].op = "add_note"
        /\ tasks[i].pc = "served"
        /\ tasks' = [tasks EXCEPT ![i].pc = "returned"]
    /\ UNCHANGED <<_deal_cache, _deal_cache_ts, clock, crm>>
    /\ UNCHANGED <<loopVars, call, dbVars>>

\* Time passes: the clock advances by half the TTL, so that ages below,
\* at and above the TTL all occur.
Tick ==
    /\ pc = "idle"
    /\ clock < MaxTicks * (_DEAL_CACHE_TTL_SECONDS \div 2)
    /\ clock' = clock + (_DEAL_CACHE_TTL_SECONDS \div 2)
    /\ UNCHANGED <<_deal_cache, _deal_cache_ts, crm, tasks>>
    /\ UNCHANGED <<loopVars, call, dbVars>>

SpecCache ==
    /\ IdleInit
    /\ [][\/ list_deals_call
          \/ write_call
          \/ CrmServes
          \/ RequestFails
          \/ list_deals_return
          \/ update_deal_return
          \/ add_note_return
          \/ Tick]_vars

\* ------------------------------------------------------------------------
\* Properties of the deal cache
\* ------------------------------------------------------------------------

Unfiltered(t) == t.op = "list_deals" /\ use_cache(t)

\* The invocation that this step starts, if it starts one.
Starts == Len(tasks') = Len(tasks) + 1

Started == tasks'[Len(tasks')]

\* The invocations that this step makes return.
Returns_(i) == tasks[i].pc = "served" /\ tasks'[i].pc = "returned"

\* C11: an unfiltered list_deals that starts right after an update_deal
\* returned, with nothing else in flight at that return, is not served
\* from the cache, and the value it returns is not older than the value
\* update_deal wrote.
C11_ReadAfterWriteRefetches ==
    \A i \in DOMAIN tasks :
        (Unfiltered(tasks[i]) /\ tasks[i].sequential) =>
            /\ ~tasks[i].hit
            /\ tasks[i].pc = "returned" => tasks[i].data >= tasks[i - 1].data

\* The cache was filled, update_deal ran alone, the next read returned.
C11_Witness ==
    /\ Len(tasks) = 3
    /\ Unfiltered(tasks[1]) /\ tasks[1].pc = "returned"
    /\ tasks[2].op = "update_deal" /\ tasks[2].alone
    /\ Unfiltered(tasks[3]) /\ tasks[3].sequential
    /\ tasks[3].pc = "returned"
    /\ tasks[3].data = 1

\* C12: under any interleaving, an unfiltered list_deals that starts after
\* an update_deal has returned never returns a value older than the value
\* that update_deal wrote.
C12_ReadsAfterWriteSeeIt ==
    \A i \in DOMAIN tasks :
        (Unfiltered(tasks[i]) /\ tasks[i].pc = "returned") =>
            tasks[i].data >= tasks[i].floor

\* C13: an unfiltered list_deals is served from the cache, without a
\* request to the CRM, exactly when the cache is populated and younger
\* than 300 seconds, and it then returns the cached value; otherwise it
\* sends the query, and when the response arrives it replaces the cache
\* by the result and the timestamp by the time of the replacement.
C13_CacheHitOnlyWhenFresh ==
    [][/\ (Starts /\ Unfiltered(Started)) =>
            IF _deal_cache # None /\ clock - _deal_cache_ts < 300
            THEN /\ Started.pc = "returned"
                 /\ Started.hit
                 /\ Started.data = _deal_cache[1]
            ELSE /\ Started.pc = "awaiting"
                 /\ ~Started.hit
       /\ \A i \in DOMAIN tasks :
            (Unfiltered(tasks[i]) /\ Returns_(i)) =>
                /\ _deal_cache' = Some(tasks[i].data)
                /\ _deal_cache_ts' = clock
      ]_vars

\* A fetch filled the cache, a call half a TTL later was served from it,
\* a call a whole TTL later fetched again; nothing was written.
C13_Witness ==
    /\ Len(tasks) = 3
    /\ \A i \in 1..3 : Unfiltered(tasks[i]) /\ tasks[i].pc = "returned"
    /\ ~tasks[1].hit /\ tasks[2].hit /\ ~tasks[3].hit
    /\ _deal_cache_ts = _DEAL_CACHE_TTL_SECONDS

\* C14: when update_deal or add_note returns, the cache is empty.
C14_EveryWriteInvalidates ==
    [][\A i \in DOMAIN tasks :
        (tasks[i].op \in {"update_deal", "add_note"} /\ Returns_(i)) =>
            _deal_cache' = None
      ]_vars

\* C26: a list_deals call with filters or with bypass_cache=True is never
\* served from the cache, it sends the query to the CRM whatever the cache
\* holds; neither its start nor its return changes the cache or the
\* timestamp.
C26_BypassLeavesCacheAlone ==
    [][/\ (/\ Starts
           /\ Started.op = "list_deals"
           /\ (Started.filters \/ Started.bypass_cache)) =>
                /\ Started.pc = "awaiting"
                /\ ~Started.hit
                /\ _deal_cache' = _deal_cache
                /\ _deal_cache_ts' = _deal_cache_ts
       /\ \A i \in DOMAIN tasks :
            (/\ tasks[i].op = "list_deals"
             /\ (tasks[i].filters \/ tasks[i].bypass_cache)
             /\ Returns_(i)) =>
                /\ _deal_cache' = _deal_cache
                /\ _deal_cache_ts' = _deal_cache_ts
      ]_vars

\* The cache was filled at time 0; half a TTL later, with the cache still
\* fresh, a filtered call and a call with bypass_cache=True both fetched
\* and returned, and the cache and its timestamp are as they were.
C26_Witness ==
    /\ Len(tasks) = 3
    /\ Unfiltered(tasks[1]) /\ tasks[1].pc = "returned"
    /\ tasks[2].filters /\ tasks[2].pc = "returned" /\ ~tasks[2].hit
    /\ tasks[3].bypass_cache /\ tasks[3].pc = "returned" /\ ~tasks[3].hit
    /\ _deal_cache = Some(0)
    /\ _deal_cache_ts = 0
    /\ clock = _DEAL_CACHE_TTL_SECONDS \div 2

\* ------------------------------------------------------------------------
\* The attribute readers of the CRM client and the search tool built on
\* them (src/clients/attio.py, src/agents/viktor_tool_agent.py)
\*
\* A deal is the Python value the CRM returns: a dict whose "values" entry
\* maps an attribute slug to a list of value entries.
\* ------------------------------------------------------------------------

\* d.get(k, default) on the pairs of a dict.
Get(pairs, k, default) ==
    IF HasKey(pairs, k)
    THEN pairs[CHOOSE i \in 1..Len(pairs) : pairs[i][1] = k][2]
    ELSE default

\* The number a numeric literal denotes; 0 and 0.0 are the same number.
NumVal(lit) ==
    CASE lit = "0" -> 0
      [] lit = "0.0" -> 0
      [] lit = "1" -> 1
      [] lit = "10.0" -> 10
      [] lit = "30.0" -> 30
      [] lit = "50.0" -> 50
      [] lit = "50" -> 50
      [] lit = "100" -> 100

\* float(v): ok is FALSE when float raises TypeError or ValueError.
float(v) ==
    CASE v.t = "num" -> [ok |-> TRUE, val |-> NumVal(v.v[1])]
      [] v.t = "bool" ->
            [ok |-> TRUE, val |-> IF v.v = <<"true">> THEN 1 ELSE 0]
      [] v.t = "str" ->
            IF v.v[1] \in {"\"0\"", "\"50\""}
            THEN [ok |-> TRUE, val |-> IF v.v[1] = "\"0\"" THEN 0 ELSE 50]
            ELSE [ok |-> FALSE, val |-> 0]
      [] OTHER -> [ok |-> FALSE, val |-> 0]

\* _attr with truthiness guards in place of the is-not-None guards.
_attr_falsy(deal, key) ==
    LET attrs == Get(deal.v, "values", JDict(<<>>))
        vals == Get(attrs.v, key, JList(<<>>))
        v == vals.v[1]
        raw == Get(v.v, "value", JNull)
        rel == Get(v.v, "target_record_id", JNull)
        option == Get(v.v, "option", JNull)
    IN  IF ~Truthy(vals) THEN JNull
        ELSE IF v.t # "dict" THEN v
        ELSE IF Truthy(raw) THEN raw
        ELSE IF Truthy(rel) THEN rel
        ELSE IF Truthy(option) THEN Get(option.v, "title", JNull)
        ELSE JNull

_attr(deal, key) ==
    LET attrs == Get(deal.v, "values", JDict(<<>>))
        vals == Get(attrs.v, key, JList(<<>>))
        v == vals.v[1]
        raw == Get(v.v, "value", JNull)
        rel == Get(v.v, "target_record_id", JNull)
        option == Get(v.v, "option", JNull)
    IN  IF ~Truthy(vals) THEN JNull
        ELSE IF v.t # "dict" THEN v
        ELSE IF raw.t # "null" THEN raw
        ELSE IF rel.t # "null" THEN rel
        ELSE IF option.t # "null" THEN Get(option.v, "title", JNull)
        ELSE JNull

\* The readers return None or a float: None is <<>>, the float x is <<x>>.
_deal_probability(deal) ==
    LET v == _attr(deal, "probability")
    IN  IF v.t = "null" THEN None
        ELSE IF float(v).ok THEN Some(float(v).val) ELSE None

_deal_value(deal) ==
    LET v == _attr(deal, "value")
    IN  IF v.t # "null" /\ float(v).ok THEN Some(float(v).val) ELSE None

\* _tool_search_deals on a CRM that holds the one deal d, with the
\* probability bounds given and the other criteria left at their
\* defaults: the result entries, with their probability and value fields.
_tool_search_deals(d, min_probability, max_probability) ==
    LET d_prob == _deal_probability(d)
    IN  IF min_probability # None
           /\ (d_prob = None \/ d_prob[1] < min_probability[1])
        THEN <<>>
        ELSE IF max_probability # None
                /\ (d_prob = None \/ d_prob[1] > max_probability[1])
        THEN <<>>
        ELSE <<[probability |-> d_prob, value |-> _deal_value(d)]>>

\* The three texts that show a deal's value, as the sequence of their
\* parts that depend on the probability and the value: "50%" is
\* [n |-> 50, unit |-> "%"], "$50" is [n |-> 50, unit |-> "$"] and
\* "unknown" has the unit "unknown". The name, the stage, the owner and the
\* dates are left out. A float is falsy when it is 0.

\* format_deal_line:  if prob is not None  and  if value:
format_deal_line(deal) ==
    LET prob == _deal_probability(deal)
        value == _deal_value(deal)
    IN  (IF prob # None THEN <<[n |-> prob[1], unit |-> "%"]>> ELSE <<>>)
        \o (IF value # None /\ value[1] # 0
            THEN <<[n |-> value[1], unit |-> "$"]>> ELSE <<>>)

\* The value line of the context message of run_production_planner.
context_lines(deal) ==
    LET value == _deal_value(deal)
    IN  IF value # None /\ value[1] # 0
        THEN <<[n |-> value[1], unit |-> "$"]>>
        ELSE <<[n |-> 0, unit |-> "unknown"]>>

\* _new_deal_alert(_summarise(deal))
_new_deal_alert(deal) ==
    LET s == [probability |-> _deal_probability(deal),
              value |-> _deal_value(deal)]
    IN  (IF s.probability # None
         THEN <<[n |-> s.probability[1], unit |-> "%"]>> ELSE <<>>)
        \o (IF s.value # None /\ s.value[1] # 0
            THEN <<[n |-> s.value[1], unit |-> "$"]>> ELSE <<>>)

\* What a deal can hold under a numeric attribute; the first leaves the
\* attribute out.
AttributeLists ==
    LET ValueEntry(e) == JList(<<JDict(<<<<"value", e>>>>)>>)
    IN
    <<[t |-> "absent", v |-> <<>>],
      JList(<<>>),
      JList(<<JNum("0")>>),
      JList(<<JNum("50")>>),
      JList(<<JNull>>),
      ValueEntry(JNum("0")),
      ValueEntry(JNum("0.0")),
      ValueEntry(JNum("50")),
      ValueEntry(JNull),
      ValueEntry(JStr("\"0\"")),
      ValueEntry(JStr("\"Nike\"")),
      ValueEntry(JBool("false")),
      ValueEntry(JList(<<>>)),
      JList(<<JDict(<<<<"value", JNull>>,
                      <<"target_record_id", JStr("\"rec-1\"")>>>>)>>),
      JList(<<JDict(<<<<"option",
                        JDict(<<<<"title", JStr("\"High\"")>>>>)>>>>)>>),
      JList(<<JDict(<<>>)>>)>>

\* A deal with the given lists.
MakeDeal(probability, value) ==
    JDict(<<<<"values",
             JDict((IF probability.t = "absent" THEN <<>>
                    ELSE <<<<"probability", probability>>>>)
                   \o (IF value.t = "absent" THEN <<>>
                       ELSE <<<<"value", value>>>>))>>>>)

\* A search of a CRM that holds one deal, for every shape of its
\* probability and value and with the probability bounds None, 0 and 50.
ReadersInit ==
    /\ LoopIdle
    /\ \E p \in DOMAIN AttributeLists, v \in DOMAIN AttributeLists :
       \E lo \in {None, Some(0), Some(50)}, hi \in {None, Some(0), Some(50)} :
          Collaborators(
              [fn |-> "_tool_search_deals", done |-> FALSE,
               deal |-> MakeDeal(AttributeLists[p], AttributeLists[v]),
               min_probability |-> lo, max_probability |-> hi,
               probability |-> None, value |-> None, results |-> <<>>,
               line |-> <<>>, context |-> <<>>, alert |-> <<>>])

\* The readers, the search tool and the three texts are applied to the
\* deal.
ReadDeal ==
    /\ pc = "idle"
    /\ call.fn = "_tool_search_deals"
    /\ ~call.done
    /\ call' = [call EXCEPT
                  !.done = TRUE,
                  !.probability = _deal_probability(call.deal),
                  !.value = _deal_value(call.deal),
                  !.results = _tool_search_deals(call.deal,
                                                 call.min_probability,
                                                 call.max_probability),
                  !.line = format_deal_line(call.deal),
                  !.context = context_lines(call.deal),
                  !.alert = _new_deal_alert(call.deal)]
    /\ UNCHANGED <<loopVars, cacheVars, dbVars>>

SpecReaders == ReadersInit /\ [][ReadDeal]_vars

\* The first entry of the deal's list for key, None when there is none.
FirstEntry(deal, key) ==
    LET attrs == Get(deal.v, "values", JDict(<<>>))
        vals == Get(attrs.v, key, JList(<<>>))
    IN  IF vals.v = <<>> THEN JNull ELSE vals.v[1]

\* The stored number, when the entry holds a number.
StoredNumber(e) ==
    IF e.t = "num" THEN Some(NumVal(e.v[1]))
    ELSE IF e.t = "dict" /\ Get(e.v, "value", JNull).t = "num"
    THEN Some(NumVal(Get(e.v, "value", JNull).v[1]))
    ELSE None

\* C15: a deal whose stored probability or value is the number 0 reads as
\* 0, not as None, and a search result built from the deal carries 0 in
\* that field; a reader returns None only for a deal that stores no number
\* under the attribute.
C15_ZeroIsNotNone ==
    (call.fn = "_tool_search_deals" /\ call.done) =>
        LET p == StoredNumber(FirstEntry(call.deal, "probability"))
            v == StoredNumber(FirstEntry(call.deal, "value"))
        IN  /\ p = Some(0) => call.probability = Some(0)
            /\ v = Some(0) => call.value = Some(0)
            /\ \A i \in DOMAIN call.results :
                /\ p = Some(0) => call.results[i].probability = Some(0)
                /\ v = Some(0) => call.results[i].value = Some(0)
            /\ call.probability = None => p = None
            /\ call.value = None => v = None

C15_Witness ==
    /\ call.fn = "_tool_search_deals"
    /\ call.done
    /\ StoredNumber(FirstEntry(call.deal, "probability")) = Some(0)
    /\ StoredNumber(FirstEntry(call.deal, "value")) = Some(0)
    /\ call.min_probability = Some(0)
    /\ call.results = <<[probability |-> Some(0), value |-> Some(0)]>>

\* C27: for a deal whose value is 0, format_deal_line, the planner's
\* context message and the new-deal alert show the value 0, not what they
\* show for a deal without a value.
C27_ZeroValueIsShown ==
    (call.fn = "_tool_search_deals" /\ call.done /\ call.value = Some(0)) =>
        LET zero == [n |-> 0, unit |-> "$"]
        IN  /\ \E i \in DOMAIN call.line : call.line[i] = zero
            /\ call.context = <<zero>>
            /\ \E i \in DOMAIN call.alert : call.alert[i] = zero

\* ------------------------------------------------------------------------
\* The signal agent's final-answer parser on its own
\* (src/agents/signal_agent.py, _parse_json_response)
\* ------------------------------------------------------------------------

\* Final answers: JSON objects, compact and pretty-printed, and texts
\* that are not a JSON object, the last three of which hold a JSON object
\* after prose, before prose and before another pair of braces.
ObjectTexts ==
    {<<"{", "}">>,
     <<"{", "\"deal_name\"", ":", "\"Nike\"", "}">>,
     <<"{", "\"deal_name\"", ":", "null", ",", "\"low\"", ":", "1", "}">>,
     <<"{", "\n", " ", "\"deal_name\"", ":", " ", "\"Nike\"", "\n", "}">>,
     <<"{", "\"deal_name\"", ":", "{", "\"low\"", ":", "[", "1", "]", "}",
       "}">>,
     <<"{", "\"deal_name\"", ":">> \o LineSepString \o <<"}">>}

OtherTexts ==
    {<<>>,
     <<"Done.">>,
     <<"[", "1", "]">>,
     <<"\"Nike\"">>,
     <<"1">>,
     <<"{", "\"deal_name\"", ":">>,
     <<"Done.", " ", "{", "\"deal_name\"", ":", "\"Nike\"", "}">>,
     <<"{", "\"deal_name\"", ":", "\"Nike\"", "}", " ", "Done.">>,
     <<"{", "\"deal_name\"", ":", "\"Nike\"", "}", " ", "{", "}">>}

\* The text as the model may wrap it: bare, in a code fence with or
\* without a language tag, with the closing fence on the last line of the
\* text, and with white space around the fence.
Wrap(w, text) ==
    CASE w = "bare" -> text
      [] w = "fence_json" -> <<Fence, "json", "\n">> \o text \o <<"\n", Fence>>
      [] w = "fence" -> <<Fence, "\n">> \o text \o <<"\n", Fence>>
      [] w = "fence_tight" -> <<Fence, "json", "\n">> \o text \o <<Fence>>
      [] w = "fence_padded" ->
            <<"\n", Fence, "json", " ", "\n">> \o text
            \o <<"\n", Fence, "\n">>

ParseInit ==
    /\ LoopIdle
    /\ \E text \in ObjectTexts \cup OtherTexts :
       \E w \in {"bare", "fence_json", "fence", "fence_tight",
                 "fence_padded"} :
          Collaborators([fn |-> "_parse_json_response", done |-> FALSE,
                         inner |-> text, wrap |-> w, text |-> Wrap(w, text),
                         out |-> JNull, run |-> Outcome("", RNone, <<>>, "")])

\* The parser is applied to the text, and so is the end_turn branch of
\* run_signal_agent to a response whose one text block holds the text.
ParseAnswer ==
    /\ pc = "idle"
    /\ call.fn = "_parse_json_response"
    /\ ~call.done
    /\ call' = [call EXCEPT
                  !.done = TRUE,
                  !.out = _parse_json_response(call.text),
                  !.run = signal_end_turn(
                             [stop_reason |-> "end_turn",
                              content |-> <<TextBlock(call.text)>>])]
    /\ UNCHANGED <<loopVars, cacheVars, dbVars>>

SpecParse == ParseInit /\ [][ParseAnswer]_vars

\* C16: for a text that is a JSON object, the parser returns for the text
\* wrapped in a code fence the mapping the text spells, which is what it
\* returns for the text unwrapped.
C16_FenceWrapIsTransparent ==
    (/\ call.fn = "_parse_json_response"
     /\ call.done
     /\ call.wrap # "bare"
     /\ call.inner \in ObjectTexts) =>
        /\ call.out.t = "dict"
        /\ call.out.v = json_loads(call.inner).val.v

\* The position of the brace that closes the brace at position i of t, 0
\* when there is none; depth is the number of braces open before i.
RECURSIVE BalancedEnd(_, _, _)
BalancedEnd(t, i, depth) ==
    IF i > Len(t) THEN 0
    ELSE IF t[i] = "{" THEN BalancedEnd(t, i + 1, depth + 1)
    ELSE IF t[i] = "}"
         THEN IF depth = 1 THEN i ELSE BalancedEnd(t, i + 1, depth - 1)
         ELSE BalancedEnd(t, i + 1, depth)

\* The first balanced {...} span of t, the empty text when there is none.
FirstBalancedSpan(t) ==
    LET start == Find(t, "{")
        end == IF start = 0 THEN 0 ELSE BalancedEnd(t, start, 0)
    IN  IF end = 0 THEN <<>> ELSE SubSeq(t, start, end)

\* C28: for a text that is not JSON as a whole and whose first balanced
\* {...} span is a JSON object, the parser returns that object, also when
\* further text with braces follows the span.
C28_FirstBalancedSpanIsParsed ==
    (/\ call.fn = "_parse_json_response"
     /\ call.done
     /\ call.wrap = "bare"
     /\ ~json_loads(call.text).ok
     /\ json_loads(FirstBalancedSpan(call.text)).ok) =>
        call.out = json_loads(FirstBalancedSpan(call.text)).val

\* C17: when the final answer of the signal agent is not a JSON object
\* (not JSON at all, or a JSON list, string or number), run_signal_agent
\* returns the empty default result and does not raise.
C17_NonObjectAnswerGivesDefault ==
    (/\ agent = "signal"
     /\ response.stop_reason = "end_turn"
     /\ LET answer == json_loads(_extract_text(response))
        IN  ~answer.ok \/ answer.val.t # "dict") =>
        /\ pc = "returned"
        /\ result.kind = "map"
        /\ result.val = _empty_result.v

\* C29: when the final answer parses to a JSON object, run_signal_agent
\* returns a mapping with all ten result keys, in which every key the
\* model supplied has the model's value and every result key the model
\* left out has its default.
C29_TenKeysWithDefaults ==
    (/\ call.fn = "_parse_json_response"
     /\ call.done
     /\ call.out.t = "dict") =>
        /\ call.run.pc = "returned"
        /\ call.run.result.kind = "map"
        /\ LET returned == call.run.result.val
               supplied == call.out.v
               defaults == _empty_result.v
           IN  /\ Len(defaults) = 10
               /\ \A i \in DOMAIN defaults : HasKey(returned, defaults[i][1])
               /\ \A i \in DOMAIN supplied :
                    Get(returned, supplied[i][1], JNull) = supplied[i][2]
               /\ \A i \in DOMAIN defaults :
                    ~HasKey(supplied, defaults[i][1]) =>
                        Get(returned, defaults[i][1], JNull) = defaults[i][2]
               /\ \A i \in DOMAIN returned :
                    \/ HasKey(supplied, returned[i][1])
                    \/ HasKey(defaults, returned[i][1])

\* The model supplied deal_name and a key that is no result key, in a code
\* fence: the mapping returned has its deal_name, its extra key and the
\* default confidence.
C29_Witness ==
    /\ call.fn = "_parse_json_response"
    /\ call.done
    /\ call.wrap = "fence_json"
    /\ call.out.t = "dict"
    /\ Len(call.out.v) = 2
    /\ call.run.pc = "returned"
    /\ Len(call.run.result.val) = 11
    /\ Get(call.run.result.val, "\"low\"", JNull) = JNum("1")
    /\ Get(call.run.result.val, "\"confidence\"", JNull) = JStr("\"low\"")

\* ------------------------------------------------------------------------
\* The capacity window search of the production planner
\* (src/agents/production_planner_agent.py, _tool_capacity_check)
\*
\* A day is its number in July 2025: 0 is 2025-06-30, 1 is 2025-07-01,
\* 31 is 2025-07-31 and 32 is 2025-08-01. A datetime is a day, the
\* seconds since midnight and whether it carries a UTC offset.
\* ------------------------------------------------------------------------

\* Largest number of deals the CRM holds.
MaxDeals == 3

\* The string YYYY-MM-DD of day d.
DateOnly(d) == [kind |-> "date", day |-> d, secs |-> 0]

\* What the CRM can hold as close date: nothing, the empty string, a text
\* that is no date, YYYY-MM-DD, a local timestamp, a timestamp ending in Z.
CloseDates ==
    {[kind |-> "none", day |-> 0, secs |-> 0],
     [kind |-> "empty", day |-> 0, secs |-> 0],
     [kind |-> "text", day |-> 0, secs |-> 0],
     [kind |-> "datetime", day |-> 31, secs |-> 43200],
     [kind |-> "datetime_z", day |-> 20, secs |-> 0]}
    \cup {DateOnly(d) : d \in {0, 1, 5, 20, 31, 32}}

\* datetime.fromisoformat(str(raw).replace("Z", "+00:00")): ok is FALSE
\* where it raises ValueError.
fromisoformat(raw) ==
    IF raw.kind \in {"date", "datetime", "datetime_z"}
    THEN [ok |-> TRUE, day |-> raw.day, secs |-> raw.secs,
          aware |-> raw.kind = "datetime_z"]
    ELSE [ok |-> FALSE, day |-> 0, secs |-> 0, aware |-> FALSE]

\* _deal_close_date: None, or the datetime.
_deal_close_date(deal) ==
    LET raw == deal.close_date
    IN  IF raw.kind \in {"none", "empty"} THEN None
        ELSE IF fromisoformat(raw).ok THEN Some(fromisoformat(raw))
        ELSE None

\* get_active_deals: the deals whose lower-cased stage is not a closed one.
get_active_deals(deals) ==
    LET closed == {"closed won", "won", "closed lost", "lost"}
        Lower(stage) ==
            CASE stage = "Closed Won" -> "closed won"
              [] stage = "Proposal Sent" -> "proposal sent"
        IsActive(d) == Lower(d.stage) \notin closed
    IN  SelectSeq(deals, IsActive)

\* The loop of _tool_capacity_check over the active deals. a <= b on
\* datetimes raises TypeError when one carries an offset and the other
\* does not.
RECURSIVE Conflicts(_, _, _, _)
Conflicts(active, start, end, acc) ==
    IF active = <<>> THEN [raised |-> FALSE, value |-> acc]
    ELSE LET d == Head(active)
             close == _deal_close_date(d)
             Comparable(a, b) == a.aware = b.aware
             Leq(a, b) ==
                a.day < b.day \/ (a.day = b.day /\ a.secs <= b.secs)
         IN  IF close = None
             THEN Conflicts(Tail(active), start, end, acc)
             ELSE IF ~Comparable(start, close[1])
             THEN [raised |-> TRUE, value |-> <<>>]
             ELSE IF Leq(start, close[1]) /\ Leq(close[1], end)
             THEN Conflicts(Tail(active), start, end, Append(acc, d.name))
             ELSE Conflicts(Tail(active), start, end, acc)

\* _tool_capacity_check: raised says that an exception left the handler
\* (the executor turns it into an error result), error that the handler
\* returned its own error entry, value names the deals returned.
_tool_capacity_check(start_date, end_date, deals) ==
    IF ~fromisoformat(start_date).ok \/ ~fromisoformat(end_date).ok
    THEN [raised |-> FALSE, error |-> TRUE, value |-> <<>>]
    ELSE LET r == Conflicts(get_active_deals(deals),
                            fromisoformat(start_date),
                            fromisoformat(end_date), <<>>)
         IN  [raised |-> r.raised, error |-> FALSE, value |-> r.value]

\* The deal lists of up to MaxDeals deals; the k-th deal is named k.
DealLists ==
    LET Named(list) ==
            [k \in DOMAIN list |->
                [name |-> k, stage |-> list[k].stage,
                 close_date |-> list[k].close_date]]
    IN  {Named(list) :
            list \in UNION {[1..n -> [stage : {"Proposal Sent", "Closed Won"},
                                      close_date : CloseDates]] :
                            n \in 0..MaxDeals}}

\* The windows asked for: July 2025, part of it, and a start that is no
\* date.
CapacityInit ==
    /\ LoopIdle
    /\ \E w \in {<<DateOnly(1), DateOnly(31)>>,
                 <<DateOnly(5), DateOnly(20)>>,
                 <<[kind |-> "text", day |-> 0, secs |-> 0], DateOnly(31)>>} :
       \E deals \in DealLists :
          Collaborators(
              [fn |-> "_tool_capacity_check", done |-> FALSE,
               start_date |-> w[1], end_date |-> w[2], deals |-> deals,
               out |-> [raised |-> FALSE, error |-> FALSE, value |-> <<>>]])

\* The search is run.
CapacityCheck ==
    /\ pc = "idle"
    /\ call.fn = "_tool_capacity_check"
    /\ ~call.done
    /\ call' = [call EXCEPT
                  !.done = TRUE,
                  !.out = _tool_capacity_check(call.start_date, call.end_date,
                                               call.deals)]
    /\ UNCHANGED <<loopVars, cacheVars, dbVars>>

SpecCapacity == CapacityInit /\ [][CapacityCheck]_vars

\* The deals that are active and close on a day of the window.
ClosesInWindow(d) ==
    /\ d.stage = "Proposal Sent"
    /\ d.close_date.kind \in {"date", "datetime", "datetime_z"}
    /\ call.start_date.day <= d.close_date.day
    /\ d.close_date.day <= call.end_date.day

\* C18: for a window [start, end] the search returns exactly the active
\* deals whose close date lies in the window, the start date and the end
\* date included, in the order of the deal list.
C18_WindowIsInclusive ==
    (/\ call.fn = "_tool_capacity_check"
     /\ call.done
     /\ call.start_date.kind = "date") =>
        /\ ~call.out.raised
        /\ ~call.out.error
        /\ call.out.value =
              [k \in 1..Len(SelectSeq(call.deals, ClosesInWindow)) |->
                  SelectSeq(call.deals, ClosesInWindow)[k].name]

\* ------------------------------------------------------------------------
\* The upsert of a production plan into Notion
\* (src/agents/production_planner_agent.py, _tool_write_notion_plan;
\* src/clients/notion.py)
\*
\* A page is the Attio record id it carries and the invocations that wrote
\* it, the creating one first; the id of a page is its position. An
\* invocation awaits the lookup, then awaits its one write.
\* ------------------------------------------------------------------------

\* Largest number of invocations of the upsert in a run.
MaxUpserts == 3

\* find_page_by_attio_id: the id of the first page that carries attio_id,
\* None when there is none.
find_page_by_attio_id(attio_id) ==
    LET results == {k \in DOMAIN pages : pages[k].attio_id = attio_id}
    IN  IF results = {} THEN None
        ELSE Some(CHOOSE k \in results : \A j \in results : k <= j)

\* The branch with a create in both arms.
upsert_branch_always_creates(existing) ==
    IF existing # None
    THEN [write |-> "create", page_id |-> 0, action |-> "updated"]
    ELSE [write |-> "create", page_id |-> 0, action |-> "created"]

\* if existing: pages.update(page_id=existing["id"]), action = "updated";
\* else: pages.create(...), action = "created".
upsert_branch(existing) ==
    IF existing # None
    THEN [write |-> "update", page_id |-> existing[1], action |-> "updated"]
    ELSE [write |-> "create", page_id |-> 0, action |-> "created"]

\* _tool_write_notion_plan up to its first await: the properties are
\* built and the lookup is sent.
write_plan_call ==
    /\ pc = "idle"
    /\ Len(upserts) < MaxUpserts
    /\ \E attio_record_id \in {"rec-1", "rec-2"} :
        upserts' = Append(upserts,
                          [attio_record_id |-> attio_record_id,
                           pc |-> "finding", existing |-> None,
                           write |-> "", page_id |-> 0, action |-> ""])
    /\ UNCHANGED <<loopVars, cacheVars, call, pages, processed_ids, snapshots,
                   runs, threads>>

\* The lookup is answered and the invocation sends the write it chose.
NotionQuery ==
    /\ pc = "idle"
    /\ \E i \in DOMAIN upserts :
        /\ upserts[i].pc = "finding"
        /\ LET existing == find_page_by_attio_id(upserts[i].attio_record_id)
               branch == upsert_branch(existing)
           IN  upserts' = [upserts EXCEPT ![i].pc = "writing",
                                          ![i].existing = existing,
                                          ![i].write = branch.write,
                                          ![i].page_id = branch.page_id,
                                          ![i].action = branch.action]
    /\ UNCHANGED <<loopVars, cacheVars, call, pages, processed_ids, snapshots,
                   runs, threads>>

\* Notion applies the write and the invocation returns its result with
\* the action.
NotionWrite ==
    /\ pc = "idle"
    /\ \E i \in DOMAIN upserts :
        /\ upserts[i].pc = "writing"
        /\ pages' =
              IF upserts[i].write = "update"
              THEN [pages EXCEPT ![upserts[i].page_id].writers =
                                      Append(@, i)]
              ELSE Append(pages, [attio_id |-> upserts[i].attio_record_id,
                                  writers |-> <<i>>])
        /\ upserts' = [upserts EXCEPT ![i].pc = "returned"]
    /\ UNCHANGED <<loopVars, cacheVars, call, processed_ids, snapshots, runs,
                   threads>>

\* A request to Notion fails: the exception leaves the handler.
NotionFails ==
    /\ pc = "idle"
    /\ \E i \in DOMAIN upserts :
        /\ upserts[i].pc \in {"finding", "writing"}
        /\ upserts' = [upserts EXCEPT ![i].pc = "raised"]
    /\ UNCHANGED <<loopVars, cacheVars, call, pages, processed_ids, snapshots,
                   runs, threads>>

SpecNotion ==
    /\ IdleInit
    /\ [][\/ write_plan_call
          \/ NotionQuery
          \/ NotionWrite
          \/ NotionFails]_vars

\* The writes invocation i has made: the pages it created and the
\* positions at which it updated a page.
CreatedBy(i) == {k \in DOMAIN pages : pages[k].writers[1] = i}

UpdatedBy(i) ==
    {<<k, n>> \in (DOMAIN pages) \X (1..(MaxUpserts + 1)) :
        n > 1 /\ n <= Len(pages[k].writers) /\ pages[k].writers[n] = i}

\* C19: an invocation that returned has looked the record id up and made
\* exactly one write: when the lookup found a page, an update of that page
\* and the action "updated"; when it found none, a create of a page with
\* the record id and the action "created". An invocation that has not
\* returned has made no write.
C19_OneWriteAsReported ==
    \A i \in DOMAIN upserts :
        LET u == upserts[i]
        IN  /\ u.pc # "returned" =>
                    (CreatedBy(i) = {} /\ UpdatedBy(i) = {})
            /\ (u.pc = "returned" /\ u.existing # None) =>
                    /\ u.action = "updated"
                    /\ CreatedBy(i) = {}
                    /\ Cardinality(UpdatedBy(i)) = 1
                    /\ \A w \in UpdatedBy(i) : w[1] = u.existing[1]
            /\ (u.pc = "returned" /\ u.existing = None) =>
                    /\ u.action = "created"
                    /\ UpdatedBy(i) = {}
                    /\ Cardinality(CreatedBy(i)) = 1
                    /\ \A k \in CreatedBy(i) :
                          pages[k].attio_id = u.attio_record_id

\* One invocation created the page of rec-1, a later one updated it.
C19_Witness ==
    /\ Len(upserts) >= 2
    /\ upserts[1].pc = "returned" /\ upserts[1].action = "created"
    /\ upserts[2].pc = "returned" /\ upserts[2].action = "updated"
    /\ pages = <<[attio_id |-> "rec-1", writers |-> <<1, 2>>]>>

\* C37: whatever the interleaving of the upserts of a record id, no two
\* Notion pages carry the same Attio record id: a page is never created
\* for a record id that has a page.
C37_OnePagePerRecord ==
    \A k, j \in DOMAIN pages :
        pages[k].attio_id = pages[j].attio_id => k = j

\* ------------------------------------------------------------------------
\* The state store (src/clients/state.py)
\*
\* Every method runs under the lock of the store, in one transaction: it
\* is one step. A row of processed_ids is its namespace, its id and
\* whether its created_at is more than keep_days in the past. call holds
\* the method that ran in the last step, its arguments and what it
\* returned; it is NoCall after a step in which no method ran.
\* ------------------------------------------------------------------------

\* Longest list of ids given to mark_many_processed.
MaxIds == 2

Namespaces == {"a3_email", "b2_deals"}

ItemIds == {"msg-1", "msg-2"}

\* SELECT 1 FROM processed_ids WHERE namespace=? AND id=?
has_processed(rows, namespace, item_id) ==
    \E r \in rows : r.namespace = namespace /\ r.id = item_id

\* INSERT without OR IGNORE: a second insert of a key raises
\* sqlite3.IntegrityError.
insert_plain(st, namespace, item_id) ==
    IF st.raised \/ has_processed(st.rows, namespace, item_id)
    THEN [rows |-> st.rows, raised |-> TRUE]
    ELSE [rows |-> st.rows \cup {[namespace |-> namespace, id |-> item_id,
                                  old |-> FALSE]},
          raised |-> FALSE]

\* INSERT OR IGNORE INTO processed_ids (namespace, id): the primary key is
\* (namespace, id), a row that exists is left as it is.
insert_or_ignore(st, namespace, item_id) ==
    IF has_processed(st.rows, namespace, item_id)
    THEN st
    ELSE [rows |-> st.rows \cup {[namespace |-> namespace, id |-> item_id,
                                  old |-> FALSE]},
          raised |-> st.raised]

\* executemany over the list of ids.
RECURSIVE InsertMany(_, _, _)
InsertMany(st, namespace, ids) ==
    IF ids = <<>> THEN st
    ELSE InsertMany(insert_or_ignore(st, namespace, Head(ids)), namespace,
                    Tail(ids))

has_processed_call ==
    /\ pc = "idle"
    /\ \E namespace \in Namespaces, item_id \in ItemIds :
        call' = [fn |-> "has_processed", done |-> TRUE,
                 namespace |-> namespace, ids |-> <<item_id>>,
                 raised |-> FALSE,
                 out |-> has_processed(processed_ids, namespace, item_id)]
    /\ UNCHANGED <<loopVars, cacheVars, pages, upserts, processed_ids,
                   snapshots, runs, threads>>

mark_processed ==
    /\ pc = "idle"
    /\ \E namespace \in Namespaces, item_id \in ItemIds :
        LET st == insert_or_ignore([rows |-> processed_ids, raised |-> FALSE],
                                   namespace, item_id)
        IN  /\ processed_ids' = st.rows
            /\ call' = [fn |-> "mark_processed", done |-> TRUE,
                        namespace |-> namespace, ids |-> <<item_id>>,
                        raised |-> st.raised, out |-> FALSE]
    /\ UNCHANGED <<loopVars, cacheVars, pages, upserts, snapshots, runs, threads>>

mark_many_processed ==
    /\ pc = "idle"
    /\ \E namespace \in Namespaces, ids \in SeqsUpTo(ItemIds, MaxIds) :
        LET st == InsertMany([rows |-> processed_ids, raised |-> FALSE],
                             namespace, ids)
        IN  /\ processed_ids' = st.rows
            /\ call' = [fn |-> "mark_many_processed", done |-> TRUE,
                        namespace |-> namespace, ids |-> ids,
                        raised |-> st.raised, out |-> FALSE]
    /\ UNCHANGED <<loopVars, cacheVars, pages, upserts, snapshots, runs, threads>>

\* DELETE without the namespace in its WHERE clause: the old rows of every
\* namespace are deleted.
purge_old_every_namespace ==
    /\ pc = "idle"
    /\ \E namespace \in Namespaces :
        /\ processed_ids' = {r \in processed_ids : ~r.old}
        /\ call' = [fn |-> "purge_old", done |-> TRUE,
                    namespace |-> namespace, ids |-> <<>>,
                    raised |-> FALSE, out |-> FALSE]
    /\ UNCHANGED <<loopVars, cacheVars, pages, upserts, snapshots, runs, threads>>

\* purge_old: the rows of the namespace older than keep_days are deleted.
purge_old ==
    /\ pc = "idle"
    /\ \E namespace \in Namespaces :
        /\ processed_ids' =
              {r \in processed_ids : ~(r.namespace = namespace /\ r.old)}
        /\ call' = [fn |-> "purge_old", done |-> TRUE,
                    namespace |-> namespace, ids |-> <<>>,
                    raised |-> FALSE, out |-> FALSE]
    /\ UNCHANGED <<loopVars, cacheVars, pages, upserts, snapshots, runs, threads>>

\* keep_days pass: every row is now older than keep_days.
DaysPass ==
    /\ pc = "idle"
    /\ \E r \in processed_ids : ~r.old
    /\ processed_ids' = {[r EXCEPT !.old = TRUE] : r \in processed_ids}
    /\ call' = NoCall
    /\ UNCHANGED <<loopVars, cacheVars, pages, upserts, snapshots, runs, threads>>

\* json.dumps(data) with the default separators ", " and ": ".
RECURSIVE json_dumps(_)
json_dumps(x) ==
    CASE x.t = "null" -> <<"null">>
      [] x.t = "list" ->
            <<"[">>
            \o Join(<<",", " ">>, [i \in DOMAIN x.v |-> json_dumps(x.v[i])])
            \o <<"]">>
      [] x.t = "dict" ->
            <<"{">>
            \o Join(<<",", " ">>,
                    [i \in DOMAIN x.v |->
                        <<x.v[i][1], ":", " ">> \o json_dumps(x.v[i][2])])
            \o <<"}">>
      [] OTHER -> x.v

\* get_snapshot: {} without a row and for a text that is not JSON.
get_snapshot(rows, namespace) ==
    IF \E r \in rows : r.namespace = namespace
    THEN LET row == CHOOSE r \in rows : r.namespace = namespace
             parsed == json_loads(row.data)
         IN  IF parsed.ok THEN parsed.val ELSE JDict(<<>>)
    ELSE JDict(<<>>)

\* INSERT ... ON CONFLICT(namespace) DO NOTHING: the first snapshot of a
\* namespace stays.
set_snapshot_keep_first(rows, namespace, data) ==
    IF \E r \in rows : r.namespace = namespace
    THEN rows
    ELSE rows \cup {[namespace |-> namespace, data |-> json_dumps(data)]}

\* set_snapshot: INSERT ... ON CONFLICT(namespace) DO UPDATE SET data; the
\* primary key of the table is the namespace.
set_snapshot(rows, namespace, data) ==
    {r \in rows : r.namespace # namespace}
        \cup {[namespace |-> namespace, data |-> json_dumps(data)]}

get_snapshot_call ==
    /\ pc = "idle"
    /\ \E namespace \in Namespaces :
        call' = [fn |-> "get_snapshot", done |-> TRUE,
                 namespace |-> namespace, ids |-> <<>>, raised |-> FALSE,
                 out |-> get_snapshot(snapshots, namespace)]
    /\ UNCHANGED <<loopVars, cacheVars, pages, upserts, processed_ids,
                   snapshots, runs, threads>>

\* set_snapshot with what B2 stores: a mapping from record ids to the
\* summaries of the deals, whose fields are strings, numbers and None.
set_snapshot_call ==
    /\ pc = "idle"
    /\ \E namespace \in Namespaces :
       \E data \in
          {JDict(<<>>),
           JDict(<< <<"\"Nike\"", JDict(<< <<"\"deal_name\"", JStr("\"Nike\"")>>,
                                          <<"\"low\"", JNum("0")>> >>)>> >>),
           JDict(<< <<"\"Nike\"", JDict(<< <<"\"deal_name\"", JStr("\"Nike\"")>>,
                                          <<"\"low\"", JNull>> >>)>> >>),
           JDict(<< <<"\"Nike\"", JDict(<< <<"\"deal_name\"", JStr("\"\"")>>,
                                          <<"\"low\"", JNum("1")>> >>)>>,
                    <<"\"low\"", JDict(<< <<"\"deal_name\"", JNull>> >>)>> >>)} :
        /\ snapshots' = set_snapshot(snapshots, namespace, data)
        /\ call' = [fn |-> "set_snapshot", done |-> TRUE,
                    namespace |-> namespace, ids |-> <<>>, raised |-> FALSE,
                    out |-> data]
    /\ UNCHANGED <<loopVars, cacheVars, pages, upserts, processed_ids, runs,
                   threads>>

SpecStore ==
    /\ IdleInit
    /\ [][\/ has_processed_call
          \/ mark_processed
          \/ mark_many_processed
          \/ purge_old
          \/ DaysPass
          \/ get_snapshot_call
          \/ set_snapshot_call]_vars

\* The keys of the rows of the table.
Keys(rows) == {<<r.namespace, r.id>> : r \in rows}

Marks == {"mark_processed", "mark_many_processed"}

\* The keys the method that ran in this step was asked to mark.
AskedToMark ==
    IF call'.fn \in Marks
    THEN {<<call'.namespace, call'.ids[k]>> : k \in DOMAIN call'.ids}
    ELSE {}

\* C20: has_processed(ns, id) tells whether (ns, id) was marked: a key is
\* in the table only once a mark operation was asked to mark it, and it is
\* in the table right after that operation; a mark operation never raises
\* and never removes a key, so has_processed stays true over any sequence
\* of mark operations; marking keys that are all present changes nothing.
C20_MarkedStaysProcessed ==
    [][/\ call'.fn = "has_processed" =>
            (call'.out <=>
                <<call'.namespace, call'.ids[1]>> \in Keys(processed_ids))
       /\ Keys(processed_ids') \ Keys(processed_ids) \subseteq AskedToMark
       /\ call'.fn \in Marks =>
            /\ ~call'.raised
            /\ AskedToMark \subseteq Keys(processed_ids')
            /\ Keys(processed_ids) \subseteq Keys(processed_ids')
            /\ AskedToMark \subseteq Keys(processed_ids) =>
                    processed_ids' = processed_ids
      ]_vars

\* A key was marked and has_processed answered true for it, while the
\* same id is unmarked in the other namespace.
C20_Witness ==
    /\ call.fn = "has_processed"
    /\ call.out
    /\ call.namespace = "a3_email"
    /\ call.ids = <<"msg-1">>
    /\ ~has_processed(processed_ids, "b2_deals", "msg-1")

\* C21: get_snapshot(ns) returns {} while nothing is stored for ns; right
\* after set_snapshot(ns, data) it returns exactly data, whatever was
\* stored for ns before, and it goes on returning that until the next
\* set_snapshot(ns, ...): no other operation, and no set_snapshot of another
\* namespace, changes what is stored for ns.
C21_SnapshotIsLastSet ==
    [][/\ call'.fn = "get_snapshot" =>
            /\ call'.out = get_snapshot(snapshots, call'.namespace)
            /\ (\A r \in snapshots : r.namespace # call'.namespace) =>
                    call'.out = JDict(<<>>)
       /\ call'.fn = "set_snapshot" =>
            /\ get_snapshot(snapshots', call'.namespace) = call'.out
            /\ {r \in snapshots' : r.namespace # call'.namespace}
                  = {r \in snapshots : r.namespace # call'.namespace}
       /\ call'.fn # "set_snapshot" => snapshots' = snapshots
      ]_vars

\* get_snapshot returned the snapshot of two deals stored for b2_deals,
\* while the other namespace holds the empty snapshot.
C21_Witness ==
    /\ call.fn = "get_snapshot"
    /\ call.namespace = "b2_deals"
    /\ call.out.t = "dict"
    /\ Len(call.out.v) = 2
    /\ \E r \in snapshots :
        r.namespace = "a3_email" /\ r.data = <<"{", "}">>

\* C31: the namespaces of the store are isolated: a step of
\* mark_processed, mark_many_processed, purge_old or set_snapshot on one
\* namespace leaves has_processed of every id and get_snapshot of every
\* other namespace as they were.
C31_NamespacesAreIsolated ==
    [][call'.fn \in Marks \cup {"purge_old", "set_snapshot"} =>
        \A other \in Namespaces \ {call'.namespace} :
            /\ \A item_id \in ItemIds :
                has_processed(processed_ids', other, item_id)
                    = has_processed(processed_ids, other, item_id)
            /\ get_snapshot(snapshots', other) = get_snapshot(snapshots, other)
      ]_vars

\* purge_old ran on a3_email and removed its rows, while b2_deals keeps a
\* row that is as old, for the same id, and its snapshot.
C31_Witness ==
    /\ call.fn = "purge_old"
    /\ call.namespace = "a3_email"
    /\ ~has_processed(processed_ids, "a3_email", "msg-1")
    /\ \E r \in processed_ids :
        r.namespace = "b2_deals" /\ r.id = "msg-1" /\ r.old
    /\ get_snapshot(snapshots, "b2_deals") # JDict(<<>>)

\* ------------------------------------------------------------------------
\* Threads calling mark_processed on one store (src/clients/state.py)
\*
\* mark_processed is `with self._lock, self._conn() as conn: conn.execute(
\* INSERT OR IGNORE ...)`: the thread takes the lock of the store, opens a
\* connection, executes the insert, which opens a write transaction on the
\* database file, and on leaving the block commits and releases the lock.
\* A thread is "out" of the block, "locked" once it holds the lock and its
\* connection, and "inserted" while its write transaction is open. SQLite
\* allows one write transaction on a file: an insert on a second
\* connection meanwhile waits, and raises sqlite3.OperationalError
\* (database is locked) when the wait times out. A thread whose call
\* raised stops, as the thread of the test does.
\* ------------------------------------------------------------------------

\* A lock that is never held: every thread enters the block at once.
_lock_never_held(ths) == TRUE

\* threading.Lock: free while no thread is inside the block.
_lock_free(ths) == \A t \in Threads : ths[t].pc = "out"

\* with self._lock, self._conn() as conn
_lock_acquire ==
    /\ pc = "idle"
    /\ _lock_free(threads)
    /\ \E t \in Threads, item_id \in ItemIds :
        /\ threads[t].pc = "out"
        /\ threads[t].left > 0
        /\ ~threads[t].raised
        /\ threads' = [threads EXCEPT ![t].pc = "locked",
                                      ![t].item_id = item_id]
    /\ UNCHANGED <<loopVars, cacheVars, call, pages, upserts, processed_ids,
                   snapshots, runs>>

\* conn.execute("INSERT OR IGNORE ..."): the row is written in the write
\* transaction of the connection, or the call raises because another
\* connection holds the write transaction.
conn_execute ==
    /\ pc = "idle"
    /\ \E t \in Threads :
        /\ threads[t].pc = "locked"
        /\ IF \E u \in Threads \ {t} : threads[u].pc = "inserted"
           THEN /\ threads' = [threads EXCEPT ![t].pc = "out",
                                              ![t].raised = TRUE]
                /\ UNCHANGED processed_ids
           ELSE /\ processed_ids' =
                     insert_or_ignore([rows |-> processed_ids,
                                       raised |-> FALSE],
                                      "a3_email", threads[t].item_id).rows
                /\ threads' = [threads EXCEPT ![t].pc = "inserted"]
    /\ UNCHANGED <<loopVars, cacheVars, call, pages, upserts, snapshots, runs>>

\* Leaving the with block: the connection commits, the lock is released
\* and mark_processed returns.
conn_commit ==
    /\ pc = "idle"
    /\ \E t \in Threads :
        /\ threads[t].pc = "inserted"
        /\ threads' = [threads EXCEPT ![t].pc = "out",
                                      ![t].left = @ - 1,
                                      ![t].marked = @ \cup {threads[t].item_id}]
    /\ UNCHANGED <<loopVars, cacheVars, call, pages, upserts, processed_ids,
                   snapshots, runs>>

SpecThreads ==
    /\ IdleInit
    /\ [][_lock_acquire \/ conn_execute \/ conn_commit]_vars

\* C32: with several threads calling mark_processed on one store, no call
\* raises, and has_processed is true for every id whose mark_processed
\* returned.
C32_ConcurrentMarksAllLand ==
    \A t \in Threads :
        /\ ~threads[t].raised
        /\ \A item_id \in threads[t].marked :
            has_processed(processed_ids, "a3_email", item_id)

\* Both threads made all their marks, the two ids are marked, and a thread
\* marked an id the other had marked before.
C32_Witness ==
    /\ \A t \in Threads : threads[t].left = 0 /\ threads[t].pc = "out"
    /\ \A item_id \in ItemIds : has_processed(processed_ids, "a3_email", item_id)
    /\ threads["thread-0"].marked = ItemIds
    /\ threads["thread-1"].marked # {}

\* ------------------------------------------------------------------------
\* B2: the deal movement check (src/handlers/b2_deal_movement.py)
\*
\* A deal as attio.list_deals serves it is its record id ("" when it has
\* none), its name, its stage ("" when it has none), its probability and
\* its close date. The snapshot is stored by set_snapshot and read by
\* get_snapshot, as JSON. An alert is its kind and the record id of its
\* deal. call holds the last check or seed: the deals it was served,
\* whether list_deals raised, and the alerts it posted in one message.
\* ------------------------------------------------------------------------

\* json.dumps of a float.
FloatLit(x) ==
    CASE x = 0 -> "0.0" [] x = 10 -> "10.0" [] x = 30 -> "30.0"

\* close.strftime("%Y-%m-%d") for a day of July 2025.
strftime(d) ==
    CASE d.day = 1 -> "\"2025-07-01\"" [] d.day = 5 -> "\"2025-07-05\""

_summarise(deal) ==
    LET close == _deal_close_date(deal)
    IN  JDict(<< <<"\"name\"", JStr(deal.name)>>,
                 <<"\"stage\"", JStr(deal.stage)>>,
                 <<"\"probability\"",
                   IF deal.probability = None THEN JNull
                   ELSE JNum(FloatLit(deal.probability[1]))>>,
                 <<"\"value\"", JNull>>,
                 <<"\"close_date\"",
                   IF close = None THEN JNull ELSE JStr(strftime(close[1]))>>,
                 <<"\"updated_at\"", JStr("\"\"")>> >>)

\* x or 0, for a probability of a summary.
OrZero(x) == IF Truthy(x) THEN NumVal(x.v[1]) ELSE 0

Abs(x) == IF x < 0 THEN 0 - x ELSE x

\* _detect_changes: the kinds of the messages, in their order.
_detect_changes(prev, now) ==
    LET F(s, k) == Get(s.v, k, JNull)
    IN  (IF F(prev, "\"stage\"") # F(now, "\"stage\"")
            /\ Truthy(F(now, "\"stage\""))
         THEN <<"stage">> ELSE <<>>)
        \o (IF Abs(OrZero(F(now, "\"probability\""))
                   - OrZero(F(prev, "\"probability\""))) >= 20
            THEN <<"probability">> ELSE <<>>)
        \o (IF F(prev, "\"close_date\"") # F(now, "\"close_date\"")
               /\ Truthy(F(now, "\"close_date\""))
            THEN <<"close_date">> ELSE <<>>)

\* current[rid] = deal for the deals that have a record id.
RECURSIVE CurrentDeals(_, _)
CurrentDeals(deals, acc) ==
    IF deals = <<>> THEN acc
    ELSE CurrentDeals(Tail(deals),
                      IF Head(deals).id # "\"\""
                      THEN DictSet(acc, Head(deals).id, Head(deals))
                      ELSE acc)

\* The loop of run_deal_movement_check over current.items().
RECURSIVE MovementLoop(_, _, _, _)
MovementLoop(items, snapshot, alerts, updated_snapshot) ==
    IF items = <<>>
    THEN [alerts |-> alerts, updated_snapshot |-> updated_snapshot]
    ELSE LET rid == Head(items)[1]
             now_s == _summarise(Head(items)[2])
             kinds == IF ~HasKey(snapshot.v, rid) THEN <<"new">>
                      ELSE _detect_changes(Get(snapshot.v, rid, JNull), now_s)
         IN  MovementLoop(Tail(items), snapshot,
                          alerts \o [k \in DOMAIN kinds |->
                                        [kind |-> kinds[k], rid |-> rid]],
                          JDict(DictSet(updated_snapshot.v, rid, now_s)))

\* The deal lists the CRM serves: a deal d1 in every combination of stage,
\* probability and close date, alone; d1 at stage Lead followed by a deal
\* d2; a deal without record id followed by d1; d2 alone; no deal.
MovementDealLists ==
    LET d1s == [id : {"\"d1\""}, name : {"\"Nike\""},
                stage : {"\"\"", "\"Lead\"", "\"Won\""},
                probability : {None, Some(10), Some(30)},
                close_date : {[kind |-> "none", day |-> 0, secs |-> 0],
                              DateOnly(1), DateOnly(5)}]
        d2 == [id |-> "\"d2\"", name |-> "\"low\"", stage |-> "\"Lead\"",
               probability |-> Some(0), close_date |-> DateOnly(1)]
        d0 == [d2 EXCEPT !.id = "\"\""]
    IN  {<<>>, <<d2>>} \cup {<<d>> : d \in d1s}
          \cup {<<d, d2>> : d \in {e \in d1s : e.stage = "\"Lead\""}}
          \cup {<<d0, d>> : d \in {e \in d1s : e.stage = "\"Won\""
                                                /\ e.probability = Some(30)
                                                /\ e.close_date = DateOnly(5)}}

\* seed_snapshot: stores the summaries when the stored snapshot is empty;
\* a failure of list_deals is logged.
seed_snapshot ==
    /\ pc = "idle"
    /\ ~Truthy(get_snapshot(snapshots, "b2_snapshot"))
    /\ \E deals \in MovementDealLists, fails \in BOOLEAN :
        /\ fails => deals = <<>>
        /\ LET current == CurrentDeals(deals, <<>>)
               snapshot == JDict([k \in DOMAIN current |->
                                   <<current[k][1], _summarise(current[k][2])>>])
           IN  /\ snapshots' = IF fails THEN snapshots
                               ELSE set_snapshot(snapshots, "b2_snapshot", snapshot)
               /\ call' = [fn |-> "seed_snapshot", done |-> TRUE, deals |-> deals,
                           raised |-> fails, alerts |-> <<>>]
    /\ UNCHANGED <<loopVars, cacheVars, pages, upserts, processed_ids, runs,
                   threads>>

\* run_deal_movement_check: returns at once when list_deals raises;
\* otherwise the snapshot is stored and the alerts, if any, are posted in
\* one message.
run_deal_movement_check ==
    /\ pc = "idle"
    /\ \E deals \in MovementDealLists, fails \in BOOLEAN :
        /\ fails => deals = <<>>
        /\ LET snapshot == get_snapshot(snapshots, "b2_snapshot")
               r == MovementLoop(CurrentDeals(deals, <<>>), snapshot, <<>>,
                                 snapshot)
           IN  /\ snapshots' = IF fails THEN snapshots
                               ELSE set_snapshot(snapshots, "b2_snapshot",
                                                 r.updated_snapshot)
               /\ call' = [fn |-> "run_deal_movement_check", done |-> TRUE,
                           deals |-> deals, raised |-> fails,
                           alerts |-> IF fails THEN <<>> ELSE r.alerts]
    /\ UNCHANGED <<loopVars, cacheVars, pages, upserts, processed_ids, runs,
                   threads>>

SpecMovement ==
    /\ IdleInit
    /\ [][seed_snapshot \/ run_deal_movement_check]_vars

\* What the snapshot stores for the deal, JNull when it stores nothing.
Stored(deal) == Get(get_snapshot(snapshots, "b2_snapshot").v, deal.id, JNull)

\* The deal moved with respect to the stored snapshot: it is new, or its
\* stage, its close date or, by at least 20 points, its probability
\* differs from the stored one (a missing probability counts as 0).
Moved(deal) ==
    LET prev == Stored(deal)
        was == Get(prev.v, "\"probability\"", JNull)
        p_prev == IF was.t = "null" THEN 0 ELSE NumVal(was.v[1])
        p_now == IF deal.probability = None THEN 0 ELSE deal.probability[1]
        close == IF deal.close_date.kind = "none" THEN JNull
                 ELSE JStr(strftime(deal.close_date))
    IN  \/ prev = JNull
        \/ Get(prev.v, "\"stage\"", JNull) # JStr(deal.stage)
        \/ p_now - p_prev >= 20
        \/ p_prev - p_now >= 20
        \/ Get(prev.v, "\"close_date\"", JNull) # close

\* C33: a check that fetched the deals posts an alert exactly when some
\* deal moved with respect to the stored snapshot, and a second check
\* served the same deal list posts no alert.
C33_AlertExactlyWhenADealMoved ==
    [][(call'.fn = "run_deal_movement_check" /\ ~call'.raised) =>
        /\ (call'.alerts # <<>>) <=>
              \E k \in DOMAIN call'.deals :
                  call'.deals[k].id # "\"\"" /\ Moved(call'.deals[k])
        /\ (/\ call.fn = "run_deal_movement_check"
            /\ ~call.raised
            /\ call'.deals = call.deals) => call'.alerts = <<>>
      ]_vars

\* ------------------------------------------------------------------------
\* The reaction helper (src/main.py, _react)
\*
\* call holds the arguments add and remove (None, "" or a name), where the
\* helper is (at), the calls of the Slack client it has attempted, each
\* with whether it succeeded, and whether an exception left the helper.
\* ------------------------------------------------------------------------

Emojis == {"eyes", "white_check_mark", "x", "hourglass_flowing_sand"}

\* A try statement without handler: what the call raised leaves it.
try_without_except(outcome) == outcome

\* try: await ...  except Exception: pass; outcome is "ok" or "raised".
try_except_pass(outcome) == "ok"

ReactInit ==
    /\ LoopIdle
    /\ \E add \in Emojis, remove \in {None, Some("")} \cup {Some(e) : e \in Emojis} :
          Collaborators([fn |-> "_react", done |-> FALSE, add |-> add,
                         remove |-> remove, at |-> "start",
                         attempts |-> <<>>, raised |-> FALSE])

\* if remove: await client.reactions_remove(...), inside try/except.
reactions_remove ==
    /\ pc = "idle"
    /\ call.fn = "_react" /\ ~call.done /\ call.at = "start"
    /\ call.remove # None /\ call.remove # Some("")
    /\ \E outcome \in {"ok", "raised"} :
        LET attempt == [api |-> "reactions_remove", name |-> call.remove[1],
                        ok |-> outcome = "ok"]
            escaped == try_except_pass(outcome) = "raised"
        IN  call' = [call EXCEPT !.attempts = Append(@, attempt),
                                 !.at = "removed",
                                 !.done = escaped, !.raised = escaped]
    /\ UNCHANGED <<loopVars, cacheVars, dbVars>>

\* await client.reactions_add(...), inside try/except; the helper returns.
reactions_add ==
    /\ pc = "idle"
    /\ call.fn = "_react" /\ ~call.done
    /\ \/ call.at = "removed"
       \/ call.at = "start" /\ call.remove \in {None, Some("")}
    /\ \E outcome \in {"ok", "raised"} :
        LET attempt == [api |-> "reactions_add", name |-> call.add,
                        ok |-> outcome = "ok"]
        IN  call' = [call EXCEPT
                        !.attempts = Append(@, attempt),
                        !.at = "added", !.done = TRUE,
                        !.raised = try_except_pass(outcome) = "raised"]
    /\ UNCHANGED <<loopVars, cacheVars, dbVars>>

SpecReact == ReactInit /\ [][reactions_remove \/ reactions_add]_vars

\* C34: _react never raises; with a reaction to remove, the removal is
\* attempted first and the addition is attempted after it whether or not
\* the removal failed; without one, no removal is attempted.
C34_ReactIsBestEffort ==
    /\ ~call.raised
    /\ call.done =>
        IF call.remove \in {None, Some("")}
        THEN /\ Len(call.attempts) = 1
             /\ call.attempts[1].api = "reactions_add"
             /\ call.attempts[1].name = call.add
        ELSE /\ Len(call.attempts) = 2
             /\ call.attempts[1].api = "reactions_remove"
             /\ call.attempts[1].name = call.remove[1]
             /\ call.attempts[2].api = "reactions_add"
             /\ call.attempts[2].name = call.add
    /\ \A k \in DOMAIN call.attempts :
        call.attempts[k].api = "reactions_remove" =>
            k = 1 /\ call.remove \notin {None, Some("")}

\* The helper returned after the removal of hourglass_flowing_sand failed
\* and the addition of x failed as well.
C34_Witness ==
    /\ call.done
    /\ call.remove = Some("hourglass_flowing_sand")
    /\ call.add = "x"
    /\ Len(call.attempts) = 2
    /\ ~call.attempts[1].ok
    /\ ~call.attempts[2].ok

\* ------------------------------------------------------------------------
\* Viktor's update_deal_field tool in front of the CRM client
\* (src/agents/viktor_tool_agent.py, _tool_update_deal)
\*
\* The tool validates the field and the value and then awaits
\* attio.update_deal, whose request, response and cache invalidation are
\* the steps of the CRM client above. call holds the arguments of the last
\* call of the tool, the parity of its number and what the validation
\* gave. No time passes: a stored deal list stays fresh.
\* ------------------------------------------------------------------------

\* The tool with str(v) for every field: no value is refused.
_tool_update_deal_any_value(field, value) ==
    IF field \notin {"probability", "stage", "close_date", "value"}
    THEN [error |-> <<"Unknown field: ", field>>, attrs |-> None]
    ELSE [error |-> <<>>, attrs |-> Some(<<field, value>>)]

\* _tool_update_deal up to its await: the error it returns, or the
\* attributes it passes to attio.update_deal.
_tool_update_deal(field, value) ==
    IF field \notin {"probability", "stage", "close_date", "value"}
    THEN [error |-> <<"Unknown field: ", field>>, attrs |-> None]
    ELSE IF field \in {"probability", "value"} /\ ~float(value).ok
    THEN [error |-> <<"Invalid value for ", field>>, attrs |-> None]
    ELSE [error |-> <<>>, attrs |-> Some(<<field, value>>)]

\* The model calls update_deal_field: with an error the tool returns at
\* once, otherwise the request of update_deal is sent.
update_deal_field ==
    /\ pc = "idle"
    /\ Len(tasks) < MaxInvocations
    /\ \E field \in {"probability", "stage", "close_date", "value", "owner"},
          value \in {JStr("\"50\""), JStr("\"Nike\"")} :
        LET out == _tool_update_deal(field, value)
        IN  /\ call' = [fn |-> "_tool_update_deal", done |-> TRUE,
                        n |-> IF call.fn = "_tool_update_deal"
                              THEN 1 - call.n ELSE 1,
                        field |-> field, value |-> value, out |-> out]
            /\ tasks' = IF out.attrs = None THEN tasks
                        ELSE Append(tasks, NewTask("update_deal", FALSE, FALSE))
    /\ UNCHANGED <<_deal_cache, _deal_cache_ts, clock, crm>>
    /\ UNCHANGED <<loopVars, dbVars>>

SpecUpdate ==
    /\ IdleInit
    /\ [][\/ update_deal_field
          \/ list_deals_call
          \/ CrmServes
          \/ RequestFails
          \/ list_deals_return
          \/ update_deal_return]_vars

\* C38: update_deal_field with a field outside probability, stage,
\* close_date and value, or with a probability or value that is no number,
\* returns an error, sends no request to the CRM and leaves the deal list
\* of the CRM and the cache as they are.
C38_InvalidUpdateChangesNothing ==
    [][(call' # call /\ call'.fn = "_tool_update_deal") =>
        LET Numeric(v) ==
                \/ v.t = "num"
                \/ v.t = "str" /\ v.v[1] \in {"\"0\"", "\"50\""}
            invalid ==
                \/ call'.field \notin {"probability", "stage", "close_date",
                                       "value"}
                \/ /\ call'.field \in {"probability", "value"}
                   /\ ~Numeric(call'.value)
        IN  invalid =>
                /\ call'.out.error # <<>>
                /\ tasks' = tasks
                /\ crm' = crm
                /\ _deal_cache' = _deal_cache
                /\ _deal_cache_ts' = _deal_cache_ts
      ]_vars

\* The tool refused the probability "Nike" while the cache held the deal
\* list stored after an earlier update.
C38_Witness ==
    /\ call.fn = "_tool_update_deal"
    /\ call.field = "probability"
    /\ call.value = JStr("\"Nike\"")
    /\ call.out.error # <<>>
    /\ _deal_cache = Some(1)
    /\ crm = 1

\* ------------------------------------------------------------------------
\* A3: the email scans of a day
\* (src/handlers/a3_email_signals.py, src/scheduler.py,
\* src/clients/gmail.py)
\*
\* The scheduler starts run_email_scan at every fourth hour and runs one
\* instance of the job at a time. A scan asks Gmail for the messages after
\* `now - 6 hours`, keeps those that are not marked, and then, signal by
\* signal, marks the message id and awaits _post_email_signal, which has no
\* try/except around the signal agent. call holds the hour, the messages
\* that arrived and the hour they arrived at, the number of scans started,
\* the signal being handled, the signals after it, every id passed to the
\* signal agent so far, the ids an aborted scan left behind and how the
\* last scan ended.
\* ------------------------------------------------------------------------

\* timedelta(hours=6)
SCAN_WINDOW_HOURS == 6

\* CronTrigger(hour="*/4")
SCAN_EVERY_HOURS == 4

\* The hours the day is followed for.
MaxHours == 8

ScanInit ==
    /\ LoopIdle
    /\ Collaborators([fn |-> "run_email_scan", done |-> TRUE, now |-> 0,
                      inbox |-> {}, scans |-> 0, signal |-> "",
                      rest |-> <<>>, passed |-> <<>>, left |-> {},
                      outcome |-> ""])

\* The Gmail query `after:<since>`: the ids of the messages that arrived
\* after since, in some order.
scan_for_deal_signals(inbox, since) ==
    LET found == {m.id : m \in {x \in inbox : x.hour > since}}
    IN  {s \in [1..Cardinality(found) -> found] :
            \A id \in found : \E i \in DOMAIN s : s[i] = id}

\* One round of the loop over new_signals: mark_processed, then the await
\* of _post_email_signal begins.
MarkThenPost(c, new_signals) ==
    /\ processed_ids' =
          insert_or_ignore([rows |-> processed_ids, raised |-> FALSE],
                           "a3_email", Head(new_signals)).rows
    /\ call' = [c EXCEPT !.done = FALSE, !.outcome = "",
                         !.signal = Head(new_signals),
                         !.rest = Tail(new_signals),
                         !.passed = Append(@, Head(new_signals))]

\* A message with a signal keyword reaches the mailbox.
message_arrives ==
    /\ call.done
    /\ \E id \in ItemIds :
        /\ \A m \in call.inbox : m.id # id
        /\ call' = [call EXCEPT !.inbox = @ \cup {[id |-> id, hour |-> call.now]}]
    /\ UNCHANGED <<loopVars, cacheVars, dbVars>>

\* An hour passes; at a scan hour, after the scan of that hour.
hour_passes ==
    /\ call.done
    /\ call.now < MaxHours
    /\ \/ call.now % SCAN_EVERY_HOURS # 0
       \/ call.scans * SCAN_EVERY_HOURS > call.now
    /\ call' = [call EXCEPT !.now = @ + 1]
    /\ UNCHANGED <<loopVars, cacheVars, dbVars>>

\* The job a3_email_scan: run_email_scan up to its first await.
a3_email_scan ==
    /\ call.done
    /\ call.now % SCAN_EVERY_HOURS = 0
    /\ call.scans * SCAN_EVERY_HOURS <= call.now
    /\ \E fails \in BOOLEAN :
       \E signals \in scan_for_deal_signals(call.inbox,
                                            call.now - SCAN_WINDOW_HOURS) :
        LET c == [call EXCEPT !.scans = @ + 1, !.signal = "", !.rest = <<>>]
            new_signals ==
                SelectSeq(signals,
                          LAMBDA id : ~has_processed(processed_ids, "a3_email", id))
        IN  IF fails
            THEN /\ call' = [c EXCEPT !.outcome = "gmail_failed"]
                 /\ UNCHANGED processed_ids
            ELSE IF new_signals = <<>>
            THEN /\ call' = [c EXCEPT !.outcome = "nothing_new"]
                 /\ UNCHANGED processed_ids
            ELSE MarkThenPost(c, new_signals)
    /\ UNCHANGED <<loopVars, cacheVars, pages, upserts, snapshots, runs, threads>>

\* _post_email_signal returns: the loop goes on with the next signal, or
\* the scan is over.
_post_email_signal_returns ==
    /\ ~call.done
    /\ IF call.rest = <<>>
       THEN /\ call' = [call EXCEPT !.done = TRUE, !.outcome = "completed"]
            /\ UNCHANGED processed_ids
       ELSE MarkThenPost(call, call.rest)
    /\ UNCHANGED <<loopVars, cacheVars, pages, upserts, snapshots, runs, threads>>

\* _post_email_signal raises: the exception leaves run_email_scan, the
\* signals after this one are not looked at.
_post_email_signal_raises ==
    /\ ~call.done
    /\ call' = [call EXCEPT !.done = TRUE, !.outcome = "aborted",
                            !.left = @ \cup {call.rest[i] : i \in DOMAIN call.rest}]
    /\ UNCHANGED <<loopVars, cacheVars, dbVars>>

SpecScan ==
    ScanInit /\ [][message_arrives \/ hour_passes \/ a3_email_scan
                   \/ _post_email_signal_returns
                   \/ _post_email_signal_raises]_vars

\* Every id passed to the signal agent is marked, and none was passed
\* twice.
MarkedBeforeHandled ==
    /\ \A i \in DOMAIN call.passed :
          has_processed(processed_ids, "a3_email", call.passed[i])
    /\ \A i, j \in DOMAIN call.passed :
          call.passed[i] = call.passed[j] => i = j

\* After an aborted scan the signals after the one that raised are not
\* marked.
AbortLeavesTheRestUnmarked ==
    call.outcome = "aborted" =>
        \A i \in DOMAIN call.rest :
            ~has_processed(processed_ids, "a3_email", call.rest[i])

\* Once a later scan has gone through its signals, every id an aborted scan
\* left behind has been passed to the signal agent.
LeftoversAreHandledLater ==
    call.outcome \in {"completed", "nothing_new"} =>
        \A id \in call.left : \E i \in DOMAIN call.passed : call.passed[i] = id

\* C39: run_email_scan marks a message id before it handles the signal, so
\* over any sequence of scans each id is passed to the signal agent at most
\* once, even when handling it raised; when handling a signal raises, the
\* scan aborts, the signals after it stay unmarked, and a later scan
\* handles them.
C39_MarkedOnceAndLeftoversHandled ==
    /\ MarkedBeforeHandled
    /\ AbortLeavesTheRestUnmarked
    /\ LeftoversAreHandledLater

\* ------------------------------------------------------------------------
\* The automation entry points and the agent runs they start
\* (src/main.py, src/handlers/a2_meeting_recap.py, a3_email_signals.py,
\* a4_calendar_nudge.py, b4_production_handoff.py, src/agents/*.py)
\*
\* Several runs are in flight in one process. A run is a coroutine: it
\* runs without interruption up to its await of the model call or of the
\* tool executor, and the other runs take their steps in between. An
\* event is identified by its id: a Slack message, a Gmail message id, a
\* calendar event id, a record id, a webhook payload.
\*
\* A run: the entry point that started it (site) and what that passed
\* (agent, event, auto_log), whether the entry point wraps the run in
\* try/except (catches), where the run stands (pc: "calling" the model,
\* executing "tools", "returned", "raised"), its loop variable turn, its
\* list messages, the conversation last sent to the model (sent), the
\* tool request being executed (pending), the notes it wrote to the CRM
\* (notes) and how the entry point went on after it (handled: "" while it
\* has not, "ok", "static" for the static text, "fallback" for A4's Attio
\* lookup, "escaped" when the exception left the entry point).
\* Every message carries the index of the run that built it (run), for
\* the properties only.
\* ------------------------------------------------------------------------

\* Largest number of model calls, over all runs together. A run is started
\* while two calls are left, so that it can take a turn with a tool.
MaxModelCalls == 3

\* The number of model calls the runs rs have made.
RECURSIVE ModelCalls(_)
ModelCalls(rs) ==
    IF rs = <<>> THEN 0 ELSE Head(rs).turn + 1 + ModelCalls(Tail(rs))

\* A run up to its first await: messages = [{"role": "user", ...}] and the
\* first model call.
NewRun(site, a, event, auto_log, catches) ==
    LET first == [role |-> "user", run |-> Len(runs) + 1,
                  content |-> <<site, event>>]
    IN  [site |-> site, agent |-> a, event |-> event, auto_log |-> auto_log,
         catches |-> catches, pc |-> "calling", turn |-> 0,
         messages |-> <<first>>, sent |-> <<first>>, pending |-> <<>>,
         notes |-> 0, handled |-> ""]

\* One list messages at module level, shared by the runs.
messages_append_shared(rs, i, m) ==
    [k \in DOMAIN rs |-> [rs[k] EXCEPT !.messages = Append(@, m)]]

\* messages.append(m) in run i: messages is a local of the run.
messages_append(rs, i, m) == [rs EXCEPT ![i].messages = Append(@, m)]

\* on_mention: every mention starts run_viktor inside try/except.
on_mention ==
    /\ pc = "idle"
    /\ ModelCalls(runs) + 2 <= MaxModelCalls
    /\ \E event \in ItemIds :
        runs' = Append(runs, NewRun("on_mention", "viktor", event, FALSE, TRUE))
    /\ UNCHANGED <<loopVars, cacheVars, call, pages, upserts, processed_ids,
                   snapshots, threads>>

\* run_calendar_nudge for one meeting: a meeting that is marked is skipped;
\* _send_nudge runs the research agent inside try/except. The scheduler
\* job awaits each nudge before the next.
run_calendar_nudge ==
    /\ pc = "idle"
    /\ ModelCalls(runs) + 2 <= MaxModelCalls
    /\ \A k \in DOMAIN runs : runs[k].site = "a4_nudge" => runs[k].handled # ""
    /\ \E event \in ItemIds :
        /\ ~has_processed(processed_ids, "a4_nudge", event)
        /\ runs' = Append(runs, NewRun("a4_nudge", "research", event, FALSE, TRUE))
    /\ UNCHANGED <<loopVars, cacheVars, call, pages, upserts, processed_ids,
                   snapshots, threads>>

\* check_and_post_handoffs for one won deal: a deal that is marked is
\* skipped; post_handoff_brief runs the planner inside try/except.
check_and_post_handoffs ==
    /\ pc = "idle"
    /\ ModelCalls(runs) + 2 <= MaxModelCalls
    /\ \A k \in DOMAIN runs :
        runs[k].site = "b4_handoffs" => runs[k].handled # ""
    /\ \E event \in ItemIds :
        /\ ~has_processed(processed_ids, "b4_handoffs", event)
        /\ runs' = Append(runs,
                          NewRun("b4_handoffs", "planner", event, FALSE, TRUE))
    /\ UNCHANGED <<loopVars, cacheVars, call, pages, upserts, processed_ids,
                   snapshots, threads>>

\* handle_recap_message: every recap message starts the signal agent, with
\* auto_log=False and without try/except.
handle_recap_message ==
    /\ pc = "idle"
    /\ ModelCalls(runs) + 2 <= MaxModelCalls
    /\ \E event \in ItemIds :
        runs' = Append(runs, NewRun("a2_recap", "signal", event, FALSE, FALSE))
    /\ UNCHANGED <<loopVars, cacheVars, call, pages, upserts, processed_ids,
                   snapshots, threads>>

\* run_email_scan for one message: a message that is marked is skipped, a
\* new one is marked and _post_email_signal starts the signal agent, with
\* auto_log=False and without try/except. The scan awaits each signal
\* before the next.
run_email_scan ==
    /\ pc = "idle"
    /\ ModelCalls(runs) + 2 <= MaxModelCalls
    /\ \A k \in DOMAIN runs : runs[k].site = "a3_email" => runs[k].handled # ""
    /\ \E event \in ItemIds :
        /\ ~has_processed(processed_ids, "a3_email", event)
        /\ processed_ids' =
              insert_or_ignore([rows |-> processed_ids, raised |-> FALSE],
                               "a3_email", event).rows
        /\ runs' = Append(runs, NewRun("a3_email", "signal", event, FALSE, FALSE))
    /\ UNCHANGED <<loopVars, cacheVars, call, pages, upserts, snapshots, threads>>

\* process_pipedream_webhook: every payload with a transcript starts the
\* signal agent, with auto_log=True and without try/except. The HTTP
\* server handles one request at a time.
process_pipedream_webhook ==
    /\ pc = "idle"
    /\ ModelCalls(runs) + 2 <= MaxModelCalls
    /\ \A k \in DOMAIN runs :
        runs[k].site = "a2_webhook" => runs[k].handled # ""
    /\ \E event \in ItemIds :
        runs' = Append(runs, NewRun("a2_webhook", "signal", event, TRUE, FALSE))
    /\ UNCHANGED <<loopVars, cacheVars, call, pages, upserts, processed_ids,
                   snapshots, threads>>

\* Run r ends by how ("returned" or "raised") and its entry point goes on
\* with h: an entry point with try/except replaces a failed run by its
\* static text (A4 by an Attio lookup, which can fail in turn), the others
\* let the exception go; A4 and B4 then mark the event as processed. The
\* locals of the run are gone. [ok, run, ids]: ok says that h is what the
\* entry point can do, ids are the rows of processed_ids afterwards.
RunEnds(r, how, h, ids) ==
    [ok |-> h \in CASE how = "returned" -> {"ok"}
                    [] ~r.catches -> {"escaped"}
                    [] r.site = "a4_nudge" -> {"fallback", "escaped"}
                    [] OTHER -> {"static"},
     run |-> [r EXCEPT !.pc = how, !.handled = h, !.messages = <<>>,
                       !.sent = <<>>, !.pending = <<>>],
     ids |-> IF r.site \in {"a4_nudge", "b4_handoffs"} /\ h # "escaped"
             THEN insert_or_ignore([rows |-> ids, raised |-> FALSE],
                                   r.site, r.event).rows
             ELSE ids]

\* The model call of run i ends: it raises, or the answer ends the run
\* (by a return, or for the signal agent by the exception of setdefault on
\* an answer that is no mapping), or the answer requests a tool: the
\* assistant message is appended and the executor is awaited. The signal
\* agent is offered both of its tools whatever auto_log is.
ModelAnswers ==
    /\ pc = "idle"
    /\ \E i \in DOMAIN runs :
        /\ runs[i].pc = "calling"
        /\ \/ \E how \in {"returned", "raised"} :
              \E h \in {"ok", "static", "fallback", "escaped"} :
                LET e == RunEnds(runs[i], how, h, processed_ids)
                IN  /\ e.ok
                    /\ runs' = [runs EXCEPT ![i] = e.run]
                    /\ processed_ids' = e.ids
           \/ /\ ModelCalls(runs) < MaxModelCalls
              /\ \E block \in
                    {ToolUseBlock(PlainTool(runs[i].agent), "ok")}
                    \cup (IF runs[i].agent = "signal"
                          THEN {ToolUseBlock("log_signal_to_deal", "ok")}
                          ELSE {}) :
                  runs' = [messages_append(runs, i,
                              [role |-> "assistant", run |-> i,
                               content |-> <<block.name, block.input>>])
                           EXCEPT ![i].pc = "tools", ![i].pending = <<block>>]
              /\ UNCHANGED processed_ids
    /\ UNCHANGED <<loopVars, cacheVars, call, pages, upserts, snapshots, threads>>

\* _execute_tool returns in run i: log_signal_to_deal has written a note;
\* the results are appended and the loop goes on to its next model call,
\* or the run returns after MAX_TURNS turns.
ToolReturns ==
    /\ pc = "idle"
    /\ \E i \in DOMAIN runs :
        /\ runs[i].pc = "tools"
        /\ LET r == runs[i]
               block == r.pending[1]
               out == _execute_tool(r.agent, block.name, block.input)
               wrote == /\ block.name = "log_signal_to_deal"
                        /\ out.invoked
                        /\ out.value.shape = "value"
               after == [messages_append(runs, i,
                            [role |-> "user", run |-> i,
                             content |-> <<"tool_result", out.value.shape>>])
                         EXCEPT ![i].pending = <<>>,
                                ![i].notes = IF wrote THEN @ + 1 ELSE @,
                                ![i].turn = @ + 1,
                                ![i].pc = "calling"]
               e == RunEnds(after[i], "returned", "ok", processed_ids)
           IN  IF InRange(r.agent, r.turn + 1)
               THEN /\ runs' = [after EXCEPT ![i].sent = after[i].messages]
                    /\ UNCHANGED processed_ids
               ELSE /\ runs' = [after EXCEPT ![i] = e.run]
                    /\ processed_ids' = e.ids
    /\ UNCHANGED <<loopVars, cacheVars, call, pages, upserts, snapshots, threads>>

SpecSites ==
    /\ IdleInit
    /\ [][\/ on_mention
          \/ run_calendar_nudge
          \/ check_and_post_handoffs
          \/ handle_recap_message
          \/ run_email_scan
          \/ process_pipedream_webhook
          \/ ModelAnswers
          \/ ToolReturns]_vars

\* ------------------------------------------------------------------------
\* Properties of the entry points and their runs
\* ------------------------------------------------------------------------

\* C22: at every entry point, a failure raised by the agent run is caught
\* and replaced by a text; the exception never leaves the entry point.
C22_CallSitesCatch ==
    \A i \in DOMAIN runs : runs[i].handled # "escaped"

\* C23: with several runs in flight, every message in the list of a run
\* and in the conversation it sent to the model was built by that run.
C23_ConversationsAreSeparate ==
    \A i \in DOMAIN runs :
        /\ \A k \in DOMAIN runs[i].messages : runs[i].messages[k].run = i
        /\ \A k \in DOMAIN runs[i].sent : runs[i].sent[k].run = i

\* Two runs are in flight: the first has sent its request, the tool
\* request and the tool result to the model, the second awaits the answer
\* to its first call.
C23_Witness ==
    /\ Len(runs) = 2
    /\ runs[1].pc = "calling" /\ Len(runs[1].sent) = 3
    /\ runs[2].pc = "calling" /\ Len(runs[2].sent) = 1
    /\ runs[1].agent = "signal" /\ runs[2].agent = "viktor"

\* C24: no entry point starts the signal agent twice for one event.
C24_SignalRunsOncePerEvent ==
    \A i, j \in DOMAIN runs :
        (/\ i < j
         /\ runs[i].agent = "signal"
         /\ runs[i].site = runs[j].site) =>
            runs[i].event # runs[j].event

\* C30: a signal agent run started with auto_log=False writes no note.
C30_NoNoteWithoutAutoLog ==
    \A i \in DOMAIN runs :
        (runs[i].agent = "signal" /\ ~runs[i].auto_log) => runs[i].notes = 0

====
